---- MODULE Spec2Model ----
(***************************************************************************)
(* Model of the C wrapper of L-BFGS-B (lbfgsb.c, lbfgsb.h) and of its       *)
(* Yorick binding (ylbfgsb.c): the optimization context, the task codec,   *)
(* the bound classifier and the reverse-communication step.                *)
(*                                                                         *)
(* Text is a sequence of one-character strings; the character NUL is the   *)
(* empty string.  A C double is a record [cls, v]: cls is "nan", "ninf",   *)
(* "fin" or "pinf" and v is the value of a finite number.                  *)
(***************************************************************************)
EXTENDS Integers, Sequences, FiniteSets, TLC

VARIABLES
    siz,      \* ctx->siz
    mem,      \* ctx->mem
    lower,    \* ctx->lower[0..siz-1]
    upper,    \* ctx->upper[0..siz-1]
    factr,    \* ctx->factr
    pgtol,    \* ctx->pgtol, in units of 1.0e-6
    print,    \* ctx->print
    task,     \* ctx->task
    nbd,      \* ctx->wrks.nbd[0..siz-1]
    wtask,    \* ctx->wrks.task[0..59]
    isave,    \* ctx->wrks.isave: the counters read by the accessors
    x,        \* the caller's variables x
    f,        \* the caller's function value f
    g,        \* the caller's gradient g
    last,     \* the latest operation: its name, argument, result and effects
    heap,     \* the blocks lbfgsb_create allocates, errno and its result
    drv       \* the local variables and the position of the driver lbfgsb

vars == <<siz, mem, lower, upper, factr, pgtol, print, task, nbd, wtask,
          isave, x, f, g, last, heap, drv>>

ctxvars == <<siz, mem, lower, upper, factr, pgtol, print, task, nbd, wtask,
             isave>>

-----------------------------------------------------------------------------
(* Bounds of the model. *)

MaxSiz == 2          \* contexts of 1..MaxSiz variables
MaxOver == 2         \* reason strings of up to 60 + MaxOver characters
MaxCount == 1        \* counter values 0..MaxCount left by the kernel
MaxVal == 1          \* values 0..MaxVal of x, f and g
MaxBound == 1        \* finite bounds 0..MaxBound
MaxSteps == 4        \* steps of one run of the driver lbfgsb

-----------------------------------------------------------------------------
(* Program constants. *)

LBFGSB_START == 0
LBFGSB_FG == 1
LBFGSB_NEW_X == 2
LBFGSB_CONVERGENCE == 3
LBFGSB_STOP == 4
LBFGSB_WARNING == 5
LBFGSB_ERROR == 6

LBFGSB_TASK_LENGTH == 60

Tasks == LBFGSB_START .. LBFGSB_ERROR

NUL == ""
SPC == " "

-----------------------------------------------------------------------------
(* C doubles. *)

NAN == [cls |-> "nan", v |-> 0]
INFINITY == [cls |-> "pinf", v |-> 0]
NEG_INFINITY == [cls |-> "ninf", v |-> 0]
Fin(n) == [cls |-> "fin", v |-> n]

\* A variant of isnan that finds no NaN.
isnan_never(a) == FALSE

isnan(a) == a.cls = "nan"

\* a > b on doubles: false when either operand is NaN.
Gt(a, b) ==
    CASE isnan(a) \/ isnan(b) -> FALSE
      [] a.cls = "pinf" -> b.cls # "pinf"
      [] a.cls = "ninf" -> FALSE
      [] b.cls = "pinf" -> FALSE
      [] b.cls = "ninf" -> TRUE
      [] OTHER -> a.v > b.v

\* a < b on doubles.
Lt(a, b) == Gt(b, a)

Min(a, b) == IF a < b THEN a ELSE b

-----------------------------------------------------------------------------
(* Text literals of the sources. *)

STR_START == <<"S","T","A","R","T">>
STR_INVALID_LOWER == <<"E","R","R","O","R",":"," ","I","n","v","a","l","i","d"," ","l","o","w","e","r"," ","b","o","u","n","d"," ","v","a","l","u","e">>
STR_INVALID_UPPER == <<"E","R","R","O","R",":"," ","I","n","v","a","l","i","d"," ","u","p","p","e","r"," ","b","o","u","n","d"," ","v","a","l","u","e">>
STR_INCOMPATIBLE == <<"E","R","R","O","R",":"," ","I","n","c","o","m","p","a","t","i","b","l","e"," ","b","o","u","n","d","s">>
PFX_CONVERGENCE == <<"C","O","N","V","E","R","G","E","N","C","E",":">>
PFX_STOP == <<"S","T","O","P",":">>
PFX_WARNING == <<"W","A","R","N","I","N","G",":">>
PFX_ERROR == <<"E","R","R","O","R",":">>

-----------------------------------------------------------------------------
(* Task codec. *)

\* A variant of match_START that stops one character short.
match_STAR(buf) ==
    buf[2] = "T" /\ buf[3] = "A" /\ buf[4] = "R"

\* get_task, case 'S': the test for START.
match_START(buf) ==
    buf[2] = "T" /\ buf[3] = "A" /\ buf[4] = "R" /\ buf[5] = "T"

\* get_task: decode the status buffer (60 characters).
get_task(buf) ==
    CASE buf[1] = "F" ->
           IF buf[2] = "G" THEN LBFGSB_FG ELSE LBFGSB_ERROR
      [] buf[1] = "N" ->
           IF buf[2] = "E" /\ buf[3] = "W" /\ buf[4] = "_" /\ buf[5] = "X"
           THEN LBFGSB_NEW_X ELSE LBFGSB_ERROR
      [] buf[1] = "C" ->
           IF buf[2] = "O" /\ buf[3] = "N" /\ buf[4] = "V"
           THEN LBFGSB_CONVERGENCE ELSE LBFGSB_ERROR
      [] buf[1] = "S" ->
           IF match_START(buf)
           THEN LBFGSB_START
           ELSE IF buf[2] = "T" /\ buf[3] = "O" /\ buf[4] = "P"
                THEN LBFGSB_STOP ELSE LBFGSB_ERROR
      [] buf[1] = "W" ->
           IF buf[2] = "A" /\ buf[3] = "R" /\ buf[4] = "N"
           THEN LBFGSB_WARNING ELSE LBFGSB_ERROR
      [] OTHER -> LBFGSB_ERROR

\* A variant of set_task_buffer whose padding starts one character early.
set_task_buffer_early_pad(str) ==
    LET len1 == Min(Len(str), LBFGSB_TASK_LENGTH)
    IN [i \in 1..LBFGSB_TASK_LENGTH |-> IF i < len1 THEN str[i] ELSE SPC]

\* lbfgsb_set_task, the buffer it leaves: str cut to 60 characters and
\* right-padded with spaces (str = <<>> stands for NULL and for "").
set_task_buffer(str) ==
    LET len1 == Min(Len(str), LBFGSB_TASK_LENGTH)
    IN [i \in 1..LBFGSB_TASK_LENGTH |-> IF i <= len1 THEN str[i] ELSE SPC]

\* The index of the last character the loop of lbfgsb_get_task_string
\* copies: the loop runs over i < len and breaks at the first NUL.
RECURSIVE copied(_, _, _)
copied(buf, i, len) ==
    IF i > len \/ buf[i] = NUL THEN i - 1 ELSE copied(buf, i + 1, len)

\* A variant of last_non_space that keeps the trailing spaces.
keep_spaces(buf, n) == n

\* ilast + 1 of lbfgsb_get_task_string: the index of the last non-space
\* character among the first n, 0 when there is none.
RECURSIVE last_non_space(_, _)
last_non_space(buf, n) ==
    IF n = 0 THEN 0
    ELSE IF buf[n] # SPC THEN n ELSE last_non_space(buf, n - 1)

\* lbfgsb_get_task_string with a non-NULL caller buffer of bufsiz bytes.
lbfgsb_get_task_string(buf, bufsiz) ==
    IF bufsiz < 1 THEN <<>>
    ELSE LET len == Min(bufsiz - 1, LBFGSB_TASK_LENGTH)
             n == copied(buf, 1, len)
         IN SubSeq(buf, 1, last_non_space(buf, n))

-----------------------------------------------------------------------------
(* Bound classifier. *)

NoError == <<>>

\* A variant of bound_class with the codes of the one-sided classes swapped.
bound_class_swapped(lo, hi) ==
    IF Gt(lo, NEG_INFINITY)
    THEN (IF Lt(hi, INFINITY) THEN 2 ELSE 3)
    ELSE (IF Lt(hi, INFINITY) THEN 1 ELSE 0)

\* The constraint class check_bounds stores for a pair it accepts.
bound_class(lo, hi) ==
    IF Gt(lo, NEG_INFINITY)
    THEN (IF Lt(hi, INFINITY) THEN 2 ELSE 1)
    ELSE (IF Lt(hi, INFINITY) THEN 3 ELSE 0)

\* A variant of bound_error without the test lo > hi.
bound_error_nan_only(lo, hi) ==
    IF isnan(lo) THEN STR_INVALID_LOWER
    ELSE IF isnan(hi) THEN STR_INVALID_UPPER
    ELSE NoError

\* The test check_bounds makes on a pair before it classifies it: the text
\* of the error it reports, NoError when the pair is accepted.
bound_error(lo, hi) ==
    IF isnan(lo) THEN STR_INVALID_LOWER
    ELSE IF isnan(hi) THEN STR_INVALID_UPPER
    ELSE IF Gt(lo, hi) THEN STR_INCOMPATIBLE
    ELSE NoError

\* The loop of check_bounds from index i on (1-based): it stores the class
\* of each accepted pair and breaks at the first rejected one.
RECURSIVE check_bounds_loop(_, _, _, _, _)
check_bounds_loop(i, n, lo, hi, bound) ==
    IF i > n THEN [nbd |-> bound, msg |-> NoError]
    ELSE IF bound_error(lo[i], hi[i]) # NoError
         THEN [nbd |-> bound, msg |-> bound_error(lo[i], hi[i])]
         ELSE check_bounds_loop(i + 1, n, lo, hi,
                  [bound EXCEPT ![i] = bound_class(lo[i], hi[i])])

\* A variant of check_bounds that changes no class when a pair is invalid.
check_bounds_atomic(n, lo, hi, bound) ==
    LET r == check_bounds_loop(1, n, lo, hi, bound)
    IN IF r.msg # NoError THEN [nbd |-> bound, msg |-> r.msg] ELSE r

\* check_bounds: the classes left in ctx->wrks.nbd and the error text given
\* to lbfgsb_set_task, if any.
check_bounds(n, lo, hi, bound) == check_bounds_loop(1, n, lo, hi, bound)

-----------------------------------------------------------------------------
(* The opaque kernel, setulb: it may rewrite every argument that is not    *)
(* const: x, f, g, the status text and its saved state.                    *)

K_FG_START == <<"F","G","_","S","T","A","R","T">>
K_FG_LNSRCH == <<"F","G","_","L","N","S","R","C","H">>
K_NEW_X == <<"N","E","W","_","X">>
K_CONVERGENCE == <<"C","O","N","V","E","R","G","E","N","C","E",":"," ","P","G","T","O","L">>
K_ABNORMAL == <<"A","B","N","O","R","M","A","L","_","T","E","R","M","I","N","A","T","I","O","N">>
K_ERROR == <<"E","R","R","O","R",":"," ","N"," ",".","L","E","."," ","0">>
K_WARNING == <<"W","A","R","N","I","N","G",":"," ","R","O","U","N","D","I","N","G">>
K_STOP == <<"S","T","O","P",":"," ","C","P","U">>

KernelTexts ==
    {K_FG_START, K_FG_LNSRCH, K_NEW_X, K_CONVERGENCE, K_ABNORMAL, K_ERROR,
     K_WARNING, K_STOP}

ZeroCounters == [iter |-> 0, nfg |-> 0, skip |-> 0]

Values == 0..MaxVal

\* What one call of the kernel may leave: values of x, f and g, one of its
\* status texts (padded with spaces to the buffer width) and saved counters.
KernelOutcomes(xs, fs, gs, texts, counts) ==
    [x : xs, f : {Fin(v) : v \in fs}, g : gs,
     text : {set_task_buffer(t) : t \in texts},
     isave : [iter : counts, nfg : counts, skip : counts]]

-----------------------------------------------------------------------------
(* The record of the latest operation. *)

NoTask == 0 - 1

\* op: the operation; pre: ctx->task when it was called; ret: the task it
\* returned (NoTask when it returns none); kernel: whether it invoked the
\* kernel; err: whether it failed with an error; str: its text argument;
\* out: the text it produced; n: its integer argument; fin: the value of f
\* a step handed to lbfgsb_iterate (NoDouble for the other operations).
NoDouble == [cls |-> "none", v |-> 0]

Did(op, ret, kern, err, str, out, n) ==
    [op |-> op, pre |-> task, ret |-> ret, kernel |-> kern,
     err |-> err, str |-> str, out |-> out, n |-> n, fin |-> NoDouble]

-----------------------------------------------------------------------------
(* The context: construction. *)

\* lbfgsb_reset with full # 0: the bounds and classes it stores.
Unbounded(n) ==
    [lower |-> [i \in 1..n |-> NEG_INFINITY],
     upper |-> [i \in 1..n |-> INFINITY],
     nbd |-> [i \in 1..n |-> 0]]

MEM_DEFAULT == 5              \* the memory the driver lbfgsb asks for
FACTR_DEFAULT == 10000000     \* 1.0e+7
PGTOL_DEFAULT == 1            \* 1.0e-6, in units of 1.0e-6
PRINT_DEFAULT == -1

\* The blocks lbfgsb_create allocates, in the order it allocates them.
Blocks == <<"ctx", "lower", "upper", "nbd", "wa", "iwa">>

BlockSet == {Blocks[i] : i \in 1..Len(Blocks)}

\* The heap after a successful lbfgsb_create: every block is allocated and
\* none was released; the context is returned.
Allocated ==
    [block |-> [b \in BlockSet |-> "live"],
     frees |-> [b \in BlockSet |-> 0],
     errno |-> "",
     ret |-> "ctx"]

\* The driver lbfgsb is not running.
NoDriver == [pc |-> "none"]

\* The state lbfgsb_create(n, m) returns, for n >= 1 and the default m, with
\* the caller's variables as the drivers set them: x holds any point, f is
\* NaN or 0 and g is not initialized.
Init ==
    /\ siz \in 1..MaxSiz
    /\ mem = MEM_DEFAULT
    /\ lower = Unbounded(siz).lower
    /\ upper = Unbounded(siz).upper
    /\ nbd = Unbounded(siz).nbd
    /\ factr = Fin(FACTR_DEFAULT)
    /\ pgtol = Fin(PGTOL_DEFAULT)
    /\ print = PRINT_DEFAULT
    /\ wtask = set_task_buffer(STR_START)
    /\ task = get_task(wtask)
    /\ isave = ZeroCounters
    /\ x \in Values
    /\ f \in {NAN, Fin(0)}
    /\ g \in Values
    /\ last = [op |-> "create", pre |-> NoTask, ret |-> NoTask,
               kernel |-> FALSE, err |-> FALSE, str |-> <<>>, out |-> <<>>,
               n |-> 0, fin |-> NoDouble]
    /\ heap = Allocated
    /\ drv = NoDriver

-----------------------------------------------------------------------------
(* Operations of the C interface. *)

\* A variant of lbfgsb_set_task that writes the buffer and leaves ctx->task
\* as it was.
lbfgsb_set_task_keeps_task(str) ==
    /\ wtask' = set_task_buffer(str)
    /\ task' = task
    /\ last' = Did("set_task", task', FALSE, FALSE, str, <<>>, 0)
    /\ UNCHANGED <<siz, mem, lower, upper, factr, pgtol, print, nbd, isave,
                   x, f, g>>

\* lbfgsb_set_task(ctx, str).
lbfgsb_set_task(str) ==
    /\ wtask' = set_task_buffer(str)
    /\ task' = get_task(wtask')
    /\ last' = Did("set_task", task', FALSE, FALSE, str, <<>>, 0)
    /\ UNCHANGED <<siz, mem, lower, upper, factr, pgtol, print, nbd, isave,
                   x, f, g>>

\* Variants of reset_bounds that ignore the flag.
reset_bounds_always(full) == TRUE
reset_bounds_never(full) == FALSE

\* lbfgsb_reset: whether the bounds are reset too.
reset_bounds(full) == full # 0

\* lbfgsb_reset(ctx, full).
lbfgsb_reset(full) ==
    /\ IF reset_bounds(full)
       THEN /\ lower' = Unbounded(siz).lower
            /\ upper' = Unbounded(siz).upper
            /\ nbd' = Unbounded(siz).nbd
       ELSE UNCHANGED <<lower, upper, nbd>>
    /\ wtask' = set_task_buffer(STR_START)
    /\ task' = get_task(wtask')
    /\ last' = Did("reset", NoTask, FALSE, FALSE, <<>>, <<>>, full)
    /\ UNCHANGED <<siz, mem, factr, pgtol, print, isave, x, f, g>>

\* Variants of checks_bounds: every call checks the bounds, or none does.
checks_bounds_always(t) == TRUE
checks_bounds_never(t) == FALSE

\* lbfgsb_iterate: whether the bounds are checked by this call.
checks_bounds(t) == t = LBFGSB_START

\* Variants of calls_kernel: one without the test, one that tests for
\* another terminal task.
calls_kernel_always(t) == TRUE
calls_kernel_unless_warning(t) == t # LBFGSB_WARNING

\* lbfgsb_iterate: whether the kernel is invoked, t being ctx->task after
\* the bounds were checked.
calls_kernel(t) == t # LBFGSB_ERROR

\* The body of lbfgsb_iterate(ctx, x, &f, g) called with *f = fin, the
\* kernel leaving one of the outcomes; op and str name the caller's operation
\* and its arguments.
iterate_call(op, str, fin, outcomes) ==
    LET cb == IF checks_bounds(task)
              THEN check_bounds(siz, lower, upper, nbd)
              ELSE [nbd |-> nbd, msg |-> NoError]
        buf1 == IF cb.msg # NoError THEN set_task_buffer(cb.msg) ELSE wtask
        task1 == IF cb.msg # NoError THEN get_task(buf1) ELSE task
    IN /\ nbd' = cb.nbd
       /\ IF calls_kernel(task1)
          THEN \E k \in outcomes :
                 /\ x' = k.x
                 /\ f' = k.f
                 /\ g' = k.g
                 /\ wtask' = k.text
                 /\ isave' = k.isave
                 /\ task' = get_task(wtask')
                 /\ last' = [Did(op, task', TRUE, FALSE, str, <<>>, 0)
                               EXCEPT !.fin = fin]
          ELSE /\ wtask' = buf1
               /\ task' = task1
               /\ f' = fin
               /\ last' = [Did(op, task', FALSE, FALSE, str, <<>>, 0)
                             EXCEPT !.fin = fin]
               /\ UNCHANGED <<x, g, isave>>
       /\ UNCHANGED <<siz, mem, lower, upper, factr, pgtol, print>>

\* lbfgsb_iterate(ctx, x, &f, g) called by a C program on its variable f.
lbfgsb_iterate(outcomes) == iterate_call("iterate", <<>>, f, outcomes)

\* The caller reads the reason text into a buffer of bufsiz bytes; str is
\* then the text the buffer was set from, when the latest change of the
\* buffer was made by lbfgsb_set_task.
get_task_string(bufsiz) ==
    /\ last' = Did("get_task_string", NoTask, FALSE, FALSE,
                   IF last.op \in {"set_task", "stop", "get_task_string"}
                      /\ ~last.err
                   THEN last.str ELSE <<>>,
                   lbfgsb_get_task_string(wtask, bufsiz), bufsiz)
    /\ UNCHANGED <<ctxvars, x, f, g>>

-----------------------------------------------------------------------------
(* Operations of the Yorick interface. *)

\* A variant of strncmp_eq that compares one character less.
strncmp_short(reason, prefix) ==
    /\ Len(reason) >= Len(prefix) - 1
    /\ SubSeq(reason, 1, Len(prefix) - 1) = SubSeq(prefix, 1, Len(prefix) - 1)

\* strncmp(reason, prefix, Len(prefix)) == 0.
strncmp_eq(reason, prefix) ==
    /\ Len(reason) >= Len(prefix)
    /\ SubSeq(reason, 1, Len(prefix)) = prefix

\* Y_lbfgsb_stop: the validity test of the reason (<<>> is the nil string).
valid_reason(reason) ==
    IF reason = <<>> THEN FALSE
    ELSE CASE reason[1] = "C" -> strncmp_eq(reason, PFX_CONVERGENCE)
           [] reason[1] = "S" -> strncmp_eq(reason, PFX_STOP)
           [] reason[1] = "W" -> strncmp_eq(reason, PFX_WARNING)
           [] reason[1] = "E" -> strncmp_eq(reason, PFX_ERROR)
           [] OTHER -> FALSE

\* Y_lbfgsb_stop(ctx, reason).
Y_lbfgsb_stop(reason) ==
    IF valid_reason(reason)
    THEN /\ wtask' = set_task_buffer(reason)
         /\ task' = get_task(wtask')
         /\ last' = Did("stop", task', FALSE, FALSE, reason, <<>>, 0)
         /\ UNCHANGED <<siz, mem, lower, upper, factr, pgtol, print, nbd,
                        isave, x, f, g>>
    ELSE /\ last' = Did("stop", NoTask, FALSE, TRUE, reason, <<>>, 0)
         /\ UNCHANGED <<ctxvars, x, f, g>>

\* Y_lbfgsb_reset(ctx, bounds=): flags is 1 when the keyword is true.
Y_lbfgsb_reset(bounds) ==
    lbfgsb_reset(IF bounds THEN 1 ELSE 0)

\* A variant of same_dims that compares the numbers of elements.
RECURSIVE numberof(_)
numberof(d) == IF d = <<>> THEN 1 ELSE d[1] * numberof(Tail(d))

same_numberof(a, b) == numberof(a) = numberof(b)

\* same_dims: the dimension lists a and b are the same.
same_dims(a, b) ==
    /\ Len(a) = Len(b)
    /\ \A i \in 1..Len(a) : a[i] = b[i]

\* obj->dims: the contexts of the model have one dimension.
ctx_dims == <<siz>>

\* Y_lbfgsb_iterate(ctx, x, f, g): xa and ga are the arguments x and g, each
\* with its dimension list d and the name of its shape; fk tells what the
\* argument f is: "number" (a real scalar, the caller's f), "void" (not
\* defined) or "other".
Y_lbfgsb_iterate(xa, fk, ga, outcomes) ==
    LET xd == xa.d
        gd == ga.d
        args == <<xa.shape, fk, ga.shape,
                  IF fk = "number" /\ f = NAN THEN "nan" ELSE "">>
        fail == /\ last' = Did("Y_iterate", NoTask, FALSE, TRUE, args, <<>>, 0)
                /\ UNCHANGED <<ctxvars, x, f, g>>
        f0 == IF fk = "number" THEN f ELSE Fin(0)
        f1 == IF isnan(f0) THEN Fin(0) ELSE f0
    IN IF ~same_dims(xd, ctx_dims) THEN fail
       ELSE IF fk # "number" /\ task # LBFGSB_START THEN fail
       ELSE IF fk # "number" /\ fk # "void" THEN fail
       ELSE IF isnan(f0) /\ task # LBFGSB_START THEN fail
       ELSE IF ~same_dims(gd, ctx_dims) THEN fail
       ELSE iterate_call("Y_iterate", args, f1, outcomes)

\* A keyword of Y_lbfgsb_config: key is the keyword; kind is "nil", "scalar",
\* "array" or "other" (a value that is no number: set_bound rejects it); val
\* is the sequence of the elements of the value, one for a scalar.
Kw(key, kind, val) == [key |-> key, kind |-> kind, val |-> val]

\* set_bound: the bound array it leaves, or Rejected (a context has at
\* least one variable, so no bound array is empty).
Rejected == <<>>

set_bound(n, dst, kw) ==
    CASE kw.kind = "scalar" -> [i \in 1..n |-> kw.val[1]]
      [] kw.kind = "array" ->
           IF Len(kw.val) = n THEN [i \in 1..n |-> kw.val[i]] ELSE Rejected
      [] OTHER -> Rejected

\* Y_lbfgsb_config, the test made on factr and on pgtol.
bad_tolerance(val) == isnan(val) \/ Lt(val, Fin(0))

\* Y_lbfgsb_config, second pass: the keywords from index i on are applied in
\* order to the settings c; a rejected value stops the pass with an error and
\* leaves what the earlier keywords did.
RECURSIVE config_pass(_, _, _, _)
config_pass(kws, i, n, c) ==
    IF i > Len(kws) THEN c
    ELSE LET kw == kws[i]
         IN CASE kw.key = "factr" ->
                   IF kw.kind = "nil" THEN config_pass(kws, i + 1, n, c)
                   ELSE IF bad_tolerance(kw.val[1]) THEN [c EXCEPT !.err = TRUE]
                   ELSE config_pass(kws, i + 1, n, [c EXCEPT !.factr = kw.val[1]])
              [] kw.key = "lower" ->
                   IF kw.kind = "nil" THEN config_pass(kws, i + 1, n, c)
                   ELSE IF set_bound(n, c.lower, kw) = Rejected
                        THEN [c EXCEPT !.err = TRUE]
                   ELSE config_pass(kws, i + 1, n,
                            [c EXCEPT !.lower = set_bound(n, c.lower, kw)])
              [] kw.key = "pgtol" ->
                   IF kw.kind = "nil" THEN config_pass(kws, i + 1, n, c)
                   ELSE IF bad_tolerance(kw.val[1]) THEN [c EXCEPT !.err = TRUE]
                   ELSE config_pass(kws, i + 1, n, [c EXCEPT !.pgtol = kw.val[1]])
              [] kw.key = "print" ->
                   IF kw.kind = "nil" THEN config_pass(kws, i + 1, n, c)
                   ELSE config_pass(kws, i + 1, n, [c EXCEPT !.print = kw.val[1].v])
              [] kw.key = "upper" ->
                   IF kw.kind = "nil" THEN config_pass(kws, i + 1, n, c)
                   ELSE IF set_bound(n, c.upper, kw) = Rejected
                        THEN [c EXCEPT !.err = TRUE]
                   ELSE config_pass(kws, i + 1, n,
                            [c EXCEPT !.upper = set_bound(n, c.upper, kw)])
              [] OTHER -> [c EXCEPT !.err = TRUE]

\* A variant of config_allowed that also lets a run in progress through.
config_allowed_in_run(t) == t \in {LBFGSB_START, LBFGSB_FG, LBFGSB_NEW_X}

\* Y_lbfgsb_config: whether the call is accepted in task t.
config_allowed(t) == t = LBFGSB_START

\* A variant of Y_lbfgsb_config that applies no keyword when one of them is
\* rejected.
Y_lbfgsb_config_atomic(kws) ==
    IF ~config_allowed(task)
    THEN /\ last' = Did("config", NoTask, FALSE, TRUE, <<>>, <<>>, Len(kws))
         /\ UNCHANGED <<ctxvars, x, f, g>>
    ELSE LET c == config_pass(kws, 1, siz,
                      [lower |-> lower, upper |-> upper, factr |-> factr,
                       pgtol |-> pgtol, print |-> print, err |-> FALSE])
         IN /\ lower' = IF c.err THEN lower ELSE c.lower
            /\ upper' = IF c.err THEN upper ELSE c.upper
            /\ factr' = IF c.err THEN factr ELSE c.factr
            /\ pgtol' = IF c.err THEN pgtol ELSE c.pgtol
            /\ print' = IF c.err THEN print ELSE c.print
            /\ last' = Did("config", NoTask, FALSE, c.err, <<>>, <<>>, Len(kws))
            /\ UNCHANGED <<siz, mem, task, nbd, wtask, isave, x, f, g>>

\* Y_lbfgsb_config(ctx, kws).
Y_lbfgsb_config(kws) ==
    IF ~config_allowed(task)
    THEN /\ last' = Did("config", NoTask, FALSE, TRUE, <<>>, <<>>, Len(kws))
         /\ UNCHANGED <<ctxvars, x, f, g>>
    ELSE LET c == config_pass(kws, 1, siz,
                      [lower |-> lower, upper |-> upper, factr |-> factr,
                       pgtol |-> pgtol, print |-> print, err |-> FALSE])
         IN /\ lower' = c.lower
            /\ upper' = c.upper
            /\ factr' = c.factr
            /\ pgtol' = c.pgtol
            /\ print' = c.print
            /\ last' = Did("config", NoTask, FALSE, c.err, <<>>, <<>>, Len(kws))
            /\ UNCHANGED <<siz, mem, task, nbd, wtask, isave, x, f, g>>

\* extract_context: the members niters, nevals and nskips.
niters == isave.iter
nevals == isave.nfg
nskips == isave.skip

\* extract_context: the member reason.
reason == lbfgsb_get_task_string(wtask, LBFGSB_TASK_LENGTH + 1)

-----------------------------------------------------------------------------
(* The caller. *)

\* The objective function of the caller and its gradient: functions of x.
objective(xx) == Fin(MaxVal - xx)
gradient(xx) == xx

\* The caller computes the objective function and its gradient at x, as the
\* kernel requested.
compute_fg ==
    /\ task = LBFGSB_FG
    /\ f' = objective(x)
    /\ g' = gradient(x)
    /\ last' = Did("compute_fg", NoTask, FALSE, FALSE, <<>>, <<>>, 0)
    /\ UNCHANGED <<ctxvars, x>>

-----------------------------------------------------------------------------
(* Inputs. *)

Fill(c, k) == [i \in 1..k |-> c]

Prefixes == {PFX_CONVERGENCE, PFX_STOP, PFX_WARNING, PFX_ERROR}

\* Reasons that start with an accepted prefix: short ones, with and without
\* trailing spaces, and ones that reach or pass the buffer width, with a
\* letter or a space at the last place the buffer keeps.
ShortBodies == {<<>>, <<" ","o","k">>, <<" ","o","k"," "," ">>, <<" "," ">>}

LongBodies(p) ==
    {Fill("a", k) :
        k \in (LBFGSB_TASK_LENGTH - Len(p) - 1) ..
              (LBFGSB_TASK_LENGTH - Len(p) + MaxOver)}
    \cup {Fill("a", LBFGSB_TASK_LENGTH - Len(p) - 1) \o <<" ">> \o Fill("b", k) :
            k \in 0..MaxOver}

AcceptedReasons ==
    UNION {{p \o b : b \in ShortBodies \cup LongBodies(p)} : p \in Prefixes}

\* Texts that start with none of the accepted prefixes.
OtherTexts ==
    {<<>>, <<"S","T","A","R">>, <<"S","T","A","R","T">>, <<"S","T","A","R","T","I","N","G">>, <<"F","G">>, <<"F","G","_","S","T","A","R","T">>, <<"F">>, <<"N","E","W","_","X">>, <<"N","E","W","_">>,
     <<"S","T","O","P">>, <<"S","T","O">>, <<"S","T","O","P"," ",":","x">>, <<"s","t","o","p",":"," ","x">>, <<" ","S","T","O","P",":"," ","x">>, <<"C","O","N","V">>, <<"C","O","N">>,
     <<"C","O","N","V","E","R","G","E","N","C","E">>, <<"W","A","R","N",":"," ","x">>, <<"W","A","R">>, <<"W","A","R","N","I","N","G">>, <<"E","R","R","O","R">>, <<"E","R","R","O","R"," ","x">>, <<"h","e","l","l","o">>,
     <<" "," "," ">>}

Texts == AcceptedReasons \cup OtherTexts

BoundVals == {NAN, NEG_INFINITY, INFINITY} \cup {Fin(v) : v \in 0..MaxBound}

\* The array of n elements that holds v at index i and w elsewhere.
OneOff(n, i, v, w) == [j \in 1..n |-> IF j = i THEN v ELSE w]

BoundArrays(n, vals, others) ==
    {OneOff(n, i, v, w) : i \in 1..n, v \in vals, w \in others}

\* Keyword lists that set one bound, from a scalar or from an array of the
\* dimensions of the context.
BoundConfigs(n, vals, others) ==
    {<<Kw(k, "scalar", <<v>>)>> : k \in {"lower", "upper"}, v \in vals}
    \cup {<<Kw(k, "array", a)>> :
            k \in {"lower", "upper"}, a \in BoundArrays(n, vals, others)}

\* Keyword lists that are rejected or that change nothing.
RejectedConfigs(n) ==
    {<<Kw("lower", "array", Fill(Fin(0), n + 1))>>,
     <<Kw("upper", "other", <<>>)>>,
     <<Kw("factr", "scalar", <<NAN>>)>>,
     <<Kw("pgtol", "scalar", <<Fin(-1)>>)>>,
     <<Kw("maxiter", "scalar", <<Fin(0)>>)>>,
     <<Kw("lower", "nil", <<>>)>>}

-----------------------------------------------------------------------------
(* The protocol: every operation, on a few inputs of each kind. *)

ProtoTexts == {<<>>} \cup {p \o <<" ","o","k">> : p \in Prefixes}

\* The settings the driver lbfgsb makes.
DriverConfig ==
    <<Kw("print", "scalar", <<Fin(-1)>>), Kw("factr", "scalar", <<Fin(0)>>),
      Kw("pgtol", "scalar", <<Fin(0)>>)>>

ProtoConfigs(n) ==
    {<<Kw("lower", "scalar", <<Fin(MaxBound)>>)>>,
     <<Kw("upper", "scalar", <<Fin(0)>>)>>,
     <<Kw("factr", "scalar", <<NAN>>)>>,
     DriverConfig}

ProtoKernelTexts == {K_FG_START, K_NEW_X, K_CONVERGENCE, K_ABNORMAL}

ProtoOutcomes ==
    {k \in KernelOutcomes(Values, Values, Values, ProtoKernelTexts,
                          0..MaxCount) :
        /\ k.x = k.g /\ k.f = Fin(k.x)
        /\ k.isave.iter = k.isave.nfg /\ k.isave.skip = k.isave.nfg}

Iterate ==
    /\ lbfgsb_iterate(ProtoOutcomes)
    /\ UNCHANGED <<heap, drv>>

SetTask ==
    /\ \E str \in ProtoTexts : lbfgsb_set_task(str)
    /\ UNCHANGED <<heap, drv>>

Stop ==
    /\ \E str \in ProtoTexts : Y_lbfgsb_stop(str)
    /\ UNCHANGED <<heap, drv>>

Reset ==
    /\ \E full \in {0, 1} : lbfgsb_reset(full)
    /\ UNCHANGED <<heap, drv>>

Config ==
    /\ \E kws \in ProtoConfigs(siz) : Y_lbfgsb_config(kws)
    /\ UNCHANGED <<heap, drv>>

Evaluate ==
    /\ compute_fg
    /\ UNCHANGED <<heap, drv>>

Next ==
    \/ Iterate
    \/ SetTask
    \/ Stop
    \/ Reset
    \/ Config
    \/ Evaluate

\* A context of MaxSiz variables.
ProtoInit == Init /\ siz = MaxSiz

Spec == ProtoInit /\ [][Next]_vars

-----------------------------------------------------------------------------
(* Claims on the protocol. *)

\* C1: a step made while the task is ERROR does not invoke the kernel,
\* returns ERROR and leaves the task, the reason text, x, f and g as they
\* were; holding at every step, it holds for any number of consecutive steps.
C1_ErrorStepIsNoOp ==
    [][(task = LBFGSB_ERROR /\ last'.op = "iterate") =>
          /\ ~last'.kernel
          /\ last'.ret = LBFGSB_ERROR
          /\ task' = LBFGSB_ERROR
          /\ wtask' = wtask
          /\ UNCHANGED <<x, f, g>>]_vars

\* A step was made in ERROR, with a reason text and caller values at hand.
C1_Witness ==
    /\ last.op = "iterate"
    /\ last.pre = LBFGSB_ERROR
    /\ last.ret = LBFGSB_ERROR
    /\ reason # <<>>
    /\ f # NAN

\* C2, as claimed: once the task is ERROR, no operation other than reset
\* moves it out of ERROR.
C2_OnlyResetLeavesError ==
    [][(task = LBFGSB_ERROR /\ last'.op # "reset") =>
          task' = LBFGSB_ERROR]_vars

\* C2, amended: the task leaves ERROR only by reset or by a forced task
\* (lbfgsb_set_task, or lbfgsb_stop with an accepted reason); steps,
\* evaluations, configuration and rejected lbfgsb_stop calls keep it ERROR.
C2_StepAndConfigKeepError ==
    [][(task = LBFGSB_ERROR /\ task' # LBFGSB_ERROR) =>
          \/ last'.op = "reset"
          \/ last'.op \in {"set_task", "stop"} /\ ~last'.err]_vars

\* A configuration call was made in ERROR.
C2_Witness ==
    /\ last.op = "config"
    /\ last.pre = LBFGSB_ERROR
    /\ task = LBFGSB_ERROR

\* C9: after reset the task is START and the counters read through the
\* accessors are all 0.
C9_ResetZeroesCounters ==
    last.op = "reset" =>
        /\ task = LBFGSB_START
        /\ niters = 0
        /\ nevals = 0
        /\ nskips = 0

\* A run was reset without its bounds after the kernel had counted an
\* evaluation, and the context still reads that count.
C9_Witness ==
    /\ last.op = "reset"
    /\ last.n = 0
    /\ last.pre = LBFGSB_NEW_X
    /\ task = LBFGSB_START
    /\ nevals = MaxCount
    /\ niters = MaxCount

\* C10: reset with full = 0 leaves the bounds as they were, reset with
\* full # 0 makes every lower bound -Inf and every upper bound +Inf, and both
\* leave size, memory, the two tolerances and the verbosity as they were.
C10_ResetFrame ==
    [][last'.op = "reset" =>
          /\ last'.n = 0 => UNCHANGED <<lower, upper>>
          /\ last'.n # 0 =>
                \A i \in 1..siz : /\ lower'[i] = NEG_INFINITY
                                  /\ upper'[i] = INFINITY
          /\ UNCHANGED <<siz, mem, factr, pgtol, print>>]_vars

\* A reset that keeps the bounds was made during a run, on a context whose
\* bounds and settings are not the initial ones.
C10_Witness ==
    /\ last.op = "reset"
    /\ last.n = 0
    /\ last.pre \in {LBFGSB_FG, LBFGSB_NEW_X}
    /\ \E i \in 1..siz : lower[i] # NEG_INFINITY /\ upper[i] # INFINITY
    /\ factr # Fin(FACTR_DEFAULT)


-----------------------------------------------------------------------------
\* C13: lbfgsb_config succeeds only while the task is START; called with
\* any other task it fails and changes no bound, tolerance or verbosity.
C13_ConfigOnlyAtStart ==
    [][last'.op = "config" =>
          /\ ~last'.err => task = LBFGSB_START
          /\ task # LBFGSB_START =>
                /\ last'.err
                /\ UNCHANGED <<lower, upper, factr, pgtol, print, nbd>>]_vars

\* The settings of the driver, which are valid, were refused during a run.
C13_Witness ==
    /\ last.op = "config"
    /\ last.n = Len(DriverConfig)
    /\ last.err
    /\ last.pre = LBFGSB_NEW_X
    /\ factr = Fin(FACTR_DEFAULT)

-----
(* The task codec: the operations that write and read the status buffer,   *)
(* on every text of Texts and every status text of the kernel.             *)

BufSizes ==
    {0, 1, LBFGSB_TASK_LENGTH, LBFGSB_TASK_LENGTH + 1,
     LBFGSB_TASK_LENGTH + 1 + MaxOver}

CodecOutcomes == KernelOutcomes({0}, {0}, {0}, KernelTexts, {0})

CodecInit == Init /\ siz = 1 /\ x = 0 /\ f = Fin(0) /\ g = 0

SetAnyTask ==
    /\ \E str \in Texts : lbfgsb_set_task(str)
    /\ UNCHANGED <<heap, drv>>

StopAny ==
    /\ \E str \in Texts : Y_lbfgsb_stop(str)
    /\ UNCHANGED <<heap, drv>>

ReadReason ==
    /\ \E bufsiz \in BufSizes : get_task_string(bufsiz)
    /\ UNCHANGED <<heap, drv>>

CodecIterate ==
    /\ lbfgsb_iterate(CodecOutcomes)
    /\ UNCHANGED <<heap, drv>>

CodecNext ==
    \/ SetAnyTask
    \/ StopAny
    \/ ReadReason
    \/ CodecIterate

SpecCodec == CodecInit /\ [][CodecNext]_vars

\* s starts with the text p.
StartsWith(s, p) ==
    /\ Len(s) >= Len(p)
    /\ \A i \in 1..Len(p) : s[i] = p[i]

HasAcceptedPrefix(s) == \E p \in Prefixes : StartsWith(s, p)

\* s cut to its first 60 characters.
Cut(s) == SubSeq(s, 1, Min(Len(s), LBFGSB_TASK_LENGTH))

\* s without its trailing spaces.
Trim(s) ==
    LET I == {i \in 1..Len(s) : s[i] # SPC}
    IN IF I = {} THEN <<>>
       ELSE SubSeq(s, 1, CHOOSE i \in I : \A j \in I : j <= i)

\* The decoding C5 states, by the prefix of the text.
C5_Decoded(buf) ==
    IF StartsWith(buf, <<"F","G">>) THEN LBFGSB_FG
    ELSE IF StartsWith(buf, <<"N","E","W","_","X">>) THEN LBFGSB_NEW_X
    ELSE IF StartsWith(buf, <<"C","O","N","V">>) THEN LBFGSB_CONVERGENCE
    ELSE IF StartsWith(buf, <<"S","T","A","R","T">>) THEN LBFGSB_START
    ELSE IF StartsWith(buf, <<"S","T","O","P">>) THEN LBFGSB_STOP
    ELSE IF StartsWith(buf, <<"W","A","R","N">>) THEN LBFGSB_WARNING
    ELSE LBFGSB_ERROR

\* C5: the task decoded from the status buffer is the one its prefix names
\* (FG, NEW_X, CONV, START, STOP, WARN) and ERROR for every other text.
C5_DecodeByPrefix ==
    /\ task \in Tasks
    /\ task = C5_Decoded(wtask)

\* The buffer holds a partial prefix, STAR, and the task is ERROR.
C5_Witness ==
    /\ last.op = "set_task"
    /\ last.str = <<"S","T","A","R">>
    /\ StartsWith(wtask, <<"S","T","A","R"," ">>)
    /\ task = LBFGSB_ERROR

\* C6: the reason read into a buffer of at least 61 bytes after
\* lbfgsb_set_task was given a text with an accepted prefix is that text cut
\* to 60 characters and without trailing spaces; a text of at most 60
\* characters that does not end with a space comes back unchanged.
C6_RoundTrip ==
    (/\ last.op = "get_task_string"
     /\ last.n >= LBFGSB_TASK_LENGTH + 1
     /\ HasAcceptedPrefix(last.str)) =>
        /\ last.out = Trim(Cut(last.str))
        /\ (/\ Len(last.str) <= LBFGSB_TASK_LENGTH
            /\ last.str[Len(last.str)] # SPC) => last.out = last.str

\* The reason was read back from a text longer than the buffer whose 60th
\* character is a space.
C6_Witness ==
    /\ last.op = "get_task_string"
    /\ last.n >= LBFGSB_TASK_LENGTH + 1
    /\ HasAcceptedPrefix(last.str)
    /\ Len(last.str) > LBFGSB_TASK_LENGTH
    /\ last.str[LBFGSB_TASK_LENGTH] = SPC
    /\ Len(last.out) = LBFGSB_TASK_LENGTH - 1

PrefixTask(s) ==
    CASE StartsWith(s, PFX_CONVERGENCE) -> LBFGSB_CONVERGENCE
      [] StartsWith(s, PFX_STOP) -> LBFGSB_STOP
      [] StartsWith(s, PFX_WARNING) -> LBFGSB_WARNING
      [] StartsWith(s, PFX_ERROR) -> LBFGSB_ERROR

\* C8, as claimed: lbfgsb_stop with an accepted reason sets and returns the
\* task its prefix names, and the reason text becomes the given string.
C8_StopSetsTaskAndReason ==
    (last.op = "stop" /\ HasAcceptedPrefix(last.str)) =>
        /\ ~last.err
        /\ task = PrefixTask(last.str)
        /\ last.ret = task
        /\ reason = last.str

\* C8, amended: the reason text becomes the given string cut to its first 60
\* characters and without trailing spaces.
C8_StopSetsTaskAndCutReason ==
    (last.op = "stop" /\ HasAcceptedPrefix(last.str)) =>
        /\ ~last.err
        /\ task = PrefixTask(last.str)
        /\ last.ret = task
        /\ task \notin {LBFGSB_START, LBFGSB_FG, LBFGSB_NEW_X}
        /\ reason = Trim(Cut(last.str))

\* lbfgsb_stop forced STOP on a context in ERROR, with a reason longer than
\* the buffer.
C8_Witness ==
    /\ last.op = "stop"
    /\ last.pre = LBFGSB_ERROR
    /\ task = LBFGSB_STOP
    /\ Len(last.str) > LBFGSB_TASK_LENGTH

-----------------------------------------------------------------------------
(* The bound classifier: first steps of runs on every pair of bounds.      *)

\* The kernel asks for f and g and leaves 1 in x, f and g.
BoundsOutcomes == KernelOutcomes({1}, {1}, {1}, {K_FG_START}, {0})

BoundsInit == Init /\ siz = MaxSiz /\ x = 0 /\ f = NAN /\ g = 0

BoundsConfig ==
    /\ \E kws \in BoundConfigs(siz, BoundVals, {Fin(0)})
                    \cup RejectedConfigs(siz) :
           Y_lbfgsb_config(kws)
    /\ UNCHANGED <<heap, drv>>

BoundsIterate ==
    /\ lbfgsb_iterate(BoundsOutcomes)
    /\ UNCHANGED <<heap, drv>>

BoundsReset ==
    /\ \E bounds \in BOOLEAN : Y_lbfgsb_reset(bounds)
    /\ UNCHANGED <<heap, drv>>

BoundsNext ==
    \/ BoundsConfig
    \/ BoundsIterate
    \/ BoundsReset

SpecBounds == BoundsInit /\ [][BoundsNext]_vars

\* The order of the extended reals, NaN apart.
Rank(a) == CASE a.cls = "ninf" -> 0 [] a.cls = "fin" -> 1 [] a.cls = "pinf" -> 2

Exceeds(a, b) ==
    /\ a.cls # "nan"
    /\ b.cls # "nan"
    /\ \/ Rank(a) > Rank(b)
       \/ a.cls = "fin" /\ b.cls = "fin" /\ a.v > b.v

\* The indices whose pair of bounds is invalid.
BadPairs ==
    {i \in 1..siz :
        lower[i].cls = "nan" \/ upper[i].cls = "nan"
            \/ Exceeds(lower[i], upper[i])}

\* The text reported for the first invalid pair.
FirstBadText ==
    LET i == CHOOSE i \in BadPairs : \A j \in BadPairs : i <= j
    IN IF lower[i].cls = "nan" THEN STR_INVALID_LOWER
       ELSE IF upper[i].cls = "nan" THEN STR_INVALID_UPPER
       ELSE STR_INCOMPATIBLE

\* C3: a first step (task START) on bounds of which one is NaN or one pair
\* has lower > upper returns ERROR, with the text of the first invalid pair
\* as the reason, does not invoke the kernel and leaves x, f and g untouched.
C3_InvalidBoundsStopFirstStep ==
    [][(task = LBFGSB_START /\ BadPairs # {} /\ last'.op = "iterate") =>
          /\ last'.ret = LBFGSB_ERROR
          /\ task' = LBFGSB_ERROR
          /\ ~last'.kernel
          /\ StartsWith(wtask', PFX_ERROR)
          /\ Trim(wtask') = FirstBadText
          /\ UNCHANGED <<x, f, g>>]_vars

\* A first step failed on the second pair of bounds, the first being valid.
C3_Witness ==
    /\ last.op = "iterate"
    /\ last.pre = LBFGSB_START
    /\ last.ret = LBFGSB_ERROR
    /\ siz = 2
    /\ BadPairs = {2}
    /\ Exceeds(lower[2], upper[2])
    /\ reason = STR_INCOMPATIBLE
    /\ x = 0 /\ f = NAN

\* The class C4 states: a bound counts when it is finite.
ClaimedClass(lo, hi) ==
    IF lo.cls = "fin"
    THEN (IF hi.cls = "fin" THEN 2 ELSE 1)
    ELSE (IF hi.cls = "fin" THEN 3 ELSE 0)

\* The class with a lower bound counting unless it is -Inf and an upper
\* bound counting unless it is +Inf.
SentinelClass(lo, hi) ==
    IF lo.cls # "ninf"
    THEN (IF hi.cls # "pinf" THEN 2 ELSE 1)
    ELSE (IF hi.cls # "pinf" THEN 3 ELSE 0)

\* The first step of a run has classified the bounds and the bounds are
\* those it classified.
Classified ==
    /\ last.op = "iterate"
    /\ last.pre = LBFGSB_START
    /\ last.kernel

\* C4, as claimed: the class of every valid pair is 2 when both bounds are
\* finite, 1 when only the lower one is, 3 when only the upper one is and 0
\* when neither is, an infinite value of either sign never being finite.
C4_ClassByFiniteness ==
    Classified => \A i \in 1..siz : nbd[i] = ClaimedClass(lower[i], upper[i])

\* C4, amended: the class of every valid pair is 2 when lower > -Inf and
\* upper < +Inf, 1 when only lower > -Inf, 3 when only upper < +Inf, and 0
\* otherwise; it depends on the pair alone.
C4_ClassBySentinel ==
    Classified =>
        /\ BadPairs = {}
        /\ \A i \in 1..siz : nbd[i] = SentinelClass(lower[i], upper[i])

\* A pair with lower = upper = +Inf was classified as lower-only and a pair
\* of finite bounds as both.
C4_Witness ==
    /\ Classified
    /\ siz = 2
    /\ lower[1] = INFINITY /\ upper[1] = INFINITY /\ nbd[1] = 1
    /\ lower[2] = Fin(0) /\ upper[2] = Fin(0) /\ nbd[2] = 2

-----------------------------------------------------------------------------
(* Creation and destruction of the context, with allocations that fail.    *)

\* The fields of the context when there is no context.
NoContext ==
    [siz |-> 0, mem |-> 0, lower |-> <<>>, upper |-> <<>>, nbd |-> <<>>,
     factr |-> Fin(0), pgtol |-> Fin(0), print |-> 0, task |-> NoTask,
     wtask |-> <<>>, isave |-> ZeroCounters]

\* The heap before any allocation.
NoHeap ==
    [block |-> [b \in BlockSet |-> "none"],
     frees |-> [b \in BlockSet |-> 0],
     errno |-> "",
     ret |-> "NULL"]

\* A variant of nonnull that finds every pointer NULL.
nonnull_never(h, b) == FALSE

\* free_memory: whether the pointer to block b is not NULL.  The pointers
\* are NULL after the memset of lbfgsb_create until their malloc succeeds.
nonnull(h, b) == h.block[b] = "live"

\* lbfgsb_destroy(ctx), for ctx # NULL: the blocks whose pointer is not NULL
\* are released, then the context itself.
lbfgsb_destroy_heap(h) ==
    LET released == {b \in BlockSet \ {"ctx"} : nonnull(h, b)} \cup {"ctx"}
    IN [h EXCEPT
          !.block = [b \in BlockSet |->
                       IF b \in released THEN "freed" ELSE h.block[b]],
          !.frees = [b \in BlockSet |->
                       IF b \in released THEN h.frees[b] + 1 ELSE h.frees[b]]]

\* The heap after the mallocs of lbfgsb_create of which the one of index
\* fail returns NULL (none when fail = 0): the chain of || stops there.
malloc_chain(fail) ==
    [NoHeap EXCEPT
       !.block = [b \in BlockSet |->
                    IF \E i \in 1..Len(Blocks) :
                         Blocks[i] = b /\ (fail = 0 \/ i < fail)
                    THEN "live" ELSE "none"]]

\* What malloc leaves in the arrays: they are not initialized.
Junk(n) ==
    {[lower |-> Fill(v, n), upper |-> Fill(v, n), nbd |-> Fill(c, n)] :
        v \in {NAN, Fin(0)}, c \in {0, 3}}

\* lbfgsb_create(n, m): the mallocs succeed up to the one of index fail.
lbfgsb_create(n, m, fail) ==
    /\ heap.ret = "NULL"
    /\ IF n < 1 \/ m < 1
       THEN /\ heap' = [NoHeap EXCEPT !.errno = "EINVAL"]
            /\ last' = Did("create", NoTask, FALSE, TRUE, <<>>, <<>>, n)
            /\ UNCHANGED ctxvars
       ELSE IF fail = 1
       THEN /\ heap' = [malloc_chain(fail) EXCEPT !.errno = "ENOMEM"]
            /\ last' = Did("create", NoTask, FALSE, TRUE, <<>>, <<>>, n)
            /\ UNCHANGED ctxvars
       ELSE IF fail # 0
       THEN /\ heap' = [lbfgsb_destroy_heap(malloc_chain(fail))
                          EXCEPT !.errno = "ENOMEM"]
            /\ last' = Did("create", NoTask, FALSE, TRUE, <<>>, <<>>, n)
            /\ UNCHANGED ctxvars
       ELSE \E junk \in Junk(n) :
              /\ heap' = [malloc_chain(0) EXCEPT !.ret = "ctx"]
              /\ siz' = n
              /\ mem' = m
              /\ factr' = Fin(FACTR_DEFAULT)
              /\ pgtol' = Fin(PGTOL_DEFAULT)
              /\ print' = PRINT_DEFAULT
              /\ isave' = ZeroCounters
              /\ IF reset_bounds(1)
                 THEN /\ lower' = Unbounded(n).lower
                      /\ upper' = Unbounded(n).upper
                      /\ nbd' = Unbounded(n).nbd
                 ELSE /\ lower' = junk.lower
                      /\ upper' = junk.upper
                      /\ nbd' = junk.nbd
              /\ wtask' = set_task_buffer(STR_START)
              /\ task' = get_task(wtask')
              /\ last' = Did("create", NoTask, FALSE, FALSE, <<>>, <<>>, n)
    /\ UNCHANGED <<x, f, g>>

\* lbfgsb_destroy(ctx) on the context lbfgsb_create returned.
lbfgsb_destroy ==
    /\ heap.ret = "ctx"
    /\ heap' = [lbfgsb_destroy_heap(heap) EXCEPT !.ret = "NULL"]
    /\ siz' = NoContext.siz
    /\ mem' = NoContext.mem
    /\ lower' = NoContext.lower
    /\ upper' = NoContext.upper
    /\ nbd' = NoContext.nbd
    /\ factr' = NoContext.factr
    /\ pgtol' = NoContext.pgtol
    /\ print' = NoContext.print
    /\ task' = NoContext.task
    /\ wtask' = NoContext.wtask
    /\ isave' = NoContext.isave
    /\ last' = Did("destroy", NoTask, FALSE, FALSE, <<>>, <<>>, 0)
    /\ UNCHANGED <<x, f, g>>

\* The program before it creates a context.
Uncreated ==
    /\ siz = NoContext.siz
    /\ mem = NoContext.mem
    /\ lower = NoContext.lower
    /\ upper = NoContext.upper
    /\ nbd = NoContext.nbd
    /\ factr = NoContext.factr
    /\ pgtol = NoContext.pgtol
    /\ print = NoContext.print
    /\ task = NoContext.task
    /\ wtask = NoContext.wtask
    /\ isave = NoContext.isave
    /\ x = 0 /\ f = NAN /\ g = 0
    /\ last = [op |-> "none", pre |-> NoTask, ret |-> NoTask,
               kernel |-> FALSE, err |-> FALSE, str |-> <<>>, out |-> <<>>,
               n |-> 0, fin |-> NoDouble]
    /\ heap = NoHeap

CreateInit == Uncreated /\ drv = NoDriver

Sizes == 0..MaxSiz

Memories == {0, 1, MEM_DEFAULT}

Create ==
    /\ \E n \in Sizes, m \in Memories, fail \in 0..Len(Blocks) :
          lbfgsb_create(n, m, fail)
    /\ UNCHANGED drv

Destroy ==
    /\ lbfgsb_destroy
    /\ UNCHANGED drv

\* The operations made on the context once it exists.
UseIterate ==
    /\ heap.ret = "ctx"
    /\ lbfgsb_iterate(ProtoOutcomes)
    /\ UNCHANGED <<heap, drv>>

UseSetTask ==
    /\ heap.ret = "ctx"
    /\ \E str \in ProtoTexts : lbfgsb_set_task(str)
    /\ UNCHANGED <<heap, drv>>

UseConfig ==
    /\ heap.ret = "ctx"
    /\ \E kws \in ProtoConfigs(siz) : Y_lbfgsb_config(kws)
    /\ UNCHANGED <<heap, drv>>

CreateNext ==
    \/ Create
    \/ Destroy
    \/ UseIterate
    \/ UseSetTask
    \/ UseConfig

SpecCreate == CreateInit /\ [][CreateNext]_vars

\* C11: a context newly created with size >= 1 and memory >= 1 has the
\* size and memory asked for, task START, every lower bound -Inf, every upper
\* bound +Inf, every constraint class 0 and the three counters at 0.
C11_CreatedContext ==
    (last.op = "create" /\ ~last.err) =>
        /\ siz = last.n /\ siz >= 1 /\ mem >= 1
        /\ task = LBFGSB_START
        /\ reason = STR_START
        /\ \A i \in 1..siz :
             lower[i] = NEG_INFINITY /\ upper[i] = INFINITY /\ nbd[i] = 0
        /\ niters = 0 /\ nevals = 0 /\ nskips = 0

\* A context of MaxSiz variables was created after an earlier one, which
\* had run, was destroyed.
C11_Witness ==
    /\ last.op = "create"
    /\ ~last.err
    /\ siz = MaxSiz
    /\ mem = 1
    /\ heap.ret = "ctx"
    /\ x # 0

-----------------------------------------------------------------------------
(* The step of the Yorick interface, on arguments of every kind.            *)

\* Dimension lists of an argument: those of the context, one element more,
\* and the same number of elements in two dimensions.
DimsArgs ==
    {[d |-> <<siz>>, shape |-> "same"],
     [d |-> <<siz + 1>>, shape |-> "longer"],
     [d |-> <<1, siz>>, shape |-> "reshaped"]}

FKinds == {"number", "void", "other"}

\* The kernel asks for f and g, accepts an iterate or stops; it leaves 1 in
\* x, f and g.
StepOutcomes ==
    KernelOutcomes({1}, {1}, {1}, {K_FG_START, K_NEW_X, K_ABNORMAL}, {0})

StepInit == Init /\ siz = MaxSiz /\ x = 0 /\ g = 0

StepIterate ==
    /\ \E xa \in DimsArgs, fk \in FKinds, ga \in DimsArgs :
          Y_lbfgsb_iterate(xa, fk, ga, StepOutcomes)
    /\ UNCHANGED <<heap, drv>>

\* The caller's function fg returns a value and a gradient.
StepEvaluate ==
    /\ compute_fg
    /\ UNCHANGED <<heap, drv>>

\* The caller's function fg returns NaN.
StepEvaluateNaN ==
    /\ task = LBFGSB_FG
    /\ f' = NAN
    /\ g' = gradient(x)
    /\ last' = Did("compute_fg", NoTask, FALSE, FALSE, <<>>, <<>>, 0)
    /\ UNCHANGED <<ctxvars, x, heap, drv>>

StepConfig ==
    /\ \E kws \in ProtoConfigs(siz) : Y_lbfgsb_config(kws)
    /\ UNCHANGED <<heap, drv>>

StepReset ==
    /\ \E bounds \in BOOLEAN : Y_lbfgsb_reset(bounds)
    /\ UNCHANGED <<heap, drv>>

StepNext ==
    \/ StepIterate
    \/ StepEvaluate
    \/ StepEvaluateNaN
    \/ StepConfig
    \/ StepReset

SpecStep == StepInit /\ [][StepNext]_vars

\* The arguments of a step had the dimensions of the context.
DimsOk(l) == l.str[1] = "same" /\ l.str[3] = "same"

C15_NaNStepSetsError ==
    [][(/\ last'.op = "Y_iterate"
        /\ task # LBFGSB_START
        /\ DimsOk(last')
        /\ last'.str[2] = "number"
        /\ f = NAN) =>
          /\ last'.err
          /\ ~last'.kernel
          /\ task' = LBFGSB_ERROR]_vars

\* A step given a NaN while f and g were requested failed, and the task is
\* still FG.
C15_Witness ==
    /\ last.op = "Y_iterate"
    /\ last.pre = LBFGSB_FG
    /\ last.str = <<"same", "number", "same", "nan">>
    /\ f = NAN
    /\ last.err
    /\ task = LBFGSB_FG

\* C16: a step whose x or g has not the dimensions of the context fails
\* without invoking the kernel and changes no field of the context and none
\* of x, f and g.
C16_BadDimsFailFast ==
    [][(last'.op = "Y_iterate" /\ ~DimsOk(last')) =>
          /\ last'.err
          /\ ~last'.kernel
          /\ UNCHANGED <<ctxvars, x, f, g>>]_vars

\* A first step with a NaN for f failed on the dimensions of g, and f is
\* still NaN.
C16_Witness ==
    /\ last.op = "Y_iterate"
    /\ last.pre = LBFGSB_START
    /\ last.str = <<"same", "number", "reshaped", "nan">>
    /\ last.err
    /\ f = NAN

-----------------------------------------------------------------------------
(* The driver lbfgsb of the Yorick interface.  The reasons it gives to      *)
(* lbfgsb_stop are sequences of bytes: a byte that is no ASCII character is *)
(* written as its two hexadecimal digits.                                   *)

\* The reason of the example lbfgsb_test3 for the same limit.
STR_STOP_TOO_MANY_EVALS == <<"S","T","O","P",":"," ","T","o","o"," ","m","a","n","y"," ","f","u","n","c","t","i","o","n"," ","e","v","a","l","u","a","t","i","o","n","s">>

STR_TOO_MANY_EVALS == <<"W","A","R","N","I","N","G",":"," ","T","o","o"," ","m","a","n","y"," ","f","u","n","c","t","i","o","n"," ","e","v","a","l","u","a","t","i","o","n","s">>
STR_GTEST == <<"S","T","O","P",":"," ","E2","80","96","E2","88","87","f","(","x",")","E2","80","96"," ","E2","89","A4"," ","m","a","x","(","g","a","t","o","l",","," ","g","r","t","o","l","E2","8B","85","E2","80","96","E2","88","87","f","(","x","0",")","E2","80","96",")">>
STR_FATOL == <<"S","T","O","P",":"," ","f","(","x",")"," ","E2","89","A4"," ","f","a","t","o","l">>
STR_FRTOL == <<"S","T","O","P",":"," ","|","CE","94","f","(","x",")","|"," ","E2","89","A4"," ","f","r","t","o","l","E2","8B","85","|","f","(","x",")","|">>
STR_XTEST == <<"S","T","O","P",":"," ","E2","80","96","CE","94","x","|"," ","E2","89","A4"," ","m","a","x","(","x","a","t","o","l",","," ","x","r","t","o","l","E2","8B","85","E2","80","96","x","E2","80","96",")">>
STR_TOO_MANY_ITERS == <<"W","A","R","N","I","N","G",":"," ","T","o","o"," ","m","a","n","y"," ","a","l","g","o","r","i","t","h","m"," ","i","t","e","r","a","t","i","o","n","s">>

Abs(n) == IF n < 0 THEN 0 - n ELSE n

Max(a, b) == IF a > b THEN a ELSE b

\* a <= b on doubles.
Le(a, b) == Lt(a, b) \/ (~isnan(a) /\ a = b)

\* The settings of a call of lbfgsb after lines 110-140: the initial point,
\* the limits (doubles: INFINITY when not given), the tolerances and the
\* bounds given ("none", or "bad": lower = MaxBound above upper = 0).
Limits == {Fin(0), Fin(1), Fin(2), INFINITY}

\* The relative tolerances frtol, grtol and xrtol are counted in halves (1
\* is 0.5 and 2 is 1.0), and so are the products made with them; Halves(n)
\* is the whole number n counted in halves.
Halves(n) == 2 * n

Tolerances ==
    {[fatol |-> NEG_INFINITY, frtol |-> 0, gatol |-> 0, grtol |-> 0,
      xatol |-> 0, xrtol |-> 0],
     [fatol |-> Fin(0), frtol |-> 2, gatol |-> 0, grtol |-> 0,
      xatol |-> 0, xrtol |-> 0],
     [fatol |-> NEG_INFINITY, frtol |-> 1, gatol |-> 0, grtol |-> 0,
      xatol |-> 0, xrtol |-> 0],
     [fatol |-> NEG_INFINITY, frtol |-> 0, gatol |-> 0, grtol |-> 1,
      xatol |-> 0, xrtol |-> 0],
     [fatol |-> NEG_INFINITY, frtol |-> 0, gatol |-> 0, grtol |-> 0,
      xatol |-> 0, xrtol |-> 2]}

Settings ==
    {s \in [x0 : Values, maxeval : Limits, maxiter : Limits,
            tol : Tolerances, bounds : {"none", "bad"}] :
        s.bounds = "bad" =>
            s.maxeval = INFINITY /\ s.maxiter = INFINITY /\ s.x0 = 0}

\* The keywords lbfgsb gives to lbfgsb_config.
DriverKws(s) ==
    (IF s.bounds = "bad"
     THEN <<Kw("lower", "scalar", <<Fin(MaxBound)>>),
            Kw("upper", "scalar", <<Fin(0)>>)>>
     ELSE <<Kw("lower", "nil", <<>>), Kw("upper", "nil", <<>>)>>)
    \o DriverConfig

\* The values lbfgsb_pgnorm2 may return.
Norms == 0..(MaxVal + 1)

\* The texts the kernel may leave during a run of the driver: a request for
\* f and g, a new iterate, and terminal ones.
DriverKernelTexts ==
    {K_FG_START, K_NEW_X, K_CONVERGENCE, K_ABNORMAL, K_WARNING}

\* The kernel moves x only when it asks for f and g there; it leaves in f
\* and g what the caller computed.
DriverOutcomes ==
    {k \in KernelOutcomes(Values, {f.v}, {g}, DriverKernelTexts, {0}) :
        get_task(k.text) # LBFGSB_FG => k.x = x}

\* The driver before line 148, called with the settings s.
Called(s) ==
    [pc |-> "create", p |-> s, task |-> NoTask, evals |-> 0, iters |-> 0,
     steps |-> 0, best_f |-> INFINITY, best_x |-> <<>>, best_g |-> <<>>,
     f0 |-> Fin(0), x0 |-> s.x0, gtest |-> <<>>, gnorm |-> <<>>,
     status |-> NoTask, ret |-> <<>>, seen |-> {}, forced |-> <<>>,
     calls |-> 0, events |-> <<>>, flushes |-> 0]

\* Variants of breaks: the loop is left in every task, or in none.
breaks_always(t) == TRUE
breaks_never(t) == FALSE

\* Line 236: the loop is left when the task is not NEW_X.
breaks(t) == t # LBFGSB_NEW_X

\* A variant of reached: the count is above the limit.
exceeded(count, limit) == Gt(Fin(count), limit)

\* Lines 180 and 228: the count is at the limit or above it (>=).
reached(count, limit) == ~Lt(Fin(count), limit)

\* A variant of gtest_unset: the threshold is computed at every new iterate.
gtest_unset_always(gt) == TRUE

\* Line 205: gtest == [], the threshold was not computed yet.
gtest_unset(gt) == gt = <<>>

\* A variant of improves that never finds a better value.
improves_never(fv, best) == FALSE

\* Line 186: the value fv is better than the best one so far.
improves(fv, best) == Lt(fv, best)

\* Line 148: ctx = lbfgsb_create(dimsof(x0), mem).
lbfgsb_line148 ==
    /\ drv.pc = "create"
    /\ lbfgsb_create(1, MEM_DEFAULT, 0)
    /\ drv' = [drv EXCEPT !.pc = "config"]

\* Lines 149-157: lbfgsb_config.
lbfgsb_line149 ==
    /\ drv.pc = "config"
    /\ Y_lbfgsb_config(DriverKws(drv.p))
    /\ drv' = [drv EXCEPT !.pc = IF last'.err THEN "aborted" ELSE "init"]
    /\ UNCHANGED heap

\* Lines 160-176: the local variables.
lbfgsb_line160 ==
    /\ drv.pc = "init"
    /\ x' = drv.p.x0
    /\ f' = Fin(0)
    /\ g' = 0
    /\ drv' = [drv EXCEPT !.pc = "step", !.best_f = INFINITY, !.best_g = <<>>,
                          !.best_x = <<>>, !.evals = 0, !.iters = 0,
                          !.f0 = Fin(0), !.gtest = <<>>, !.gnorm = <<>>]
    /\ last' = Did("lbfgsb:init", NoTask, FALSE, FALSE, <<>>, <<>>, 0)
    /\ UNCHANGED <<ctxvars, heap>>

\* Line 178: task = lbfgsb_iterate(ctx, x, f, g), x, f and g being arrays
\* and a number of the driver.
lbfgsb_line178 ==
    /\ drv.pc = "step"
    /\ drv.steps < MaxSteps
    /\ Y_lbfgsb_iterate([d |-> ctx_dims, shape |-> "same"], "number",
                        [d |-> ctx_dims, shape |-> "same"], DriverOutcomes)
    /\ drv' = [drv EXCEPT !.task = last'.ret, !.steps = @ + 1,
                          !.flushes = IF drv.forced # <<>> THEN @ + 1 ELSE @,
                          !.pc = IF last'.err THEN "aborted" ELSE "handle"]
    /\ UNCHANGED heap

\* A variant of xtest: the step test is always configured.
xtest_always(p) == TRUE

\* Line 176: xtest, the step test is configured in the settings p.
xtest(p) == p.tol.xatol > 0 \/ p.tol.xrtol > 0

\* A variant of after_pass that never updates x0.
after_pass_keeps_x0(d, t) ==
    [d EXCEPT !.pc = IF breaks(t) THEN "exit" ELSE "step"]

\* The position after lines 233-241, for the task t: the loop is left, or x0
\* is updated and the loop goes on.
after_pass(d, t) ==
    IF breaks(t)
    THEN [d EXCEPT !.pc = "exit"]
    ELSE [d EXCEPT !.pc = "step",
                   !.x0 = IF xtest(d.p) /\ d.evals > 1 THEN x ELSE @]

\* Lines 180-182 and 233-238: too many evaluations.
lbfgsb_line180 ==
    /\ drv.pc = "handle"
    /\ drv.task = LBFGSB_FG
    /\ reached(drv.evals, drv.p.maxeval)
    /\ Y_lbfgsb_stop(STR_TOO_MANY_EVALS)
    /\ drv' = after_pass([drv EXCEPT !.task = last'.ret,
                                     !.forced = Append(@, STR_TOO_MANY_EVALS)],
                         last'.ret)
    /\ UNCHANGED heap

\* Lines 184-200: f = fg(x, g), and the best point so far.
lbfgsb_line184 ==
    /\ drv.pc = "handle"
    /\ drv.task = LBFGSB_FG
    /\ ~reached(drv.evals, drv.p.maxeval)
    /\ compute_fg
    /\ drv' = [drv EXCEPT
                 !.evals = @ + 1,
                 !.calls = @ + 1,
                 !.best_f = IF improves(f', @) THEN f' ELSE @,
                 !.best_g = IF improves(f', drv.best_f) THEN <<g'>> ELSE @,
                 !.best_x = IF improves(f', drv.best_f) THEN <<x>> ELSE @,
                 !.seen = @ \cup {<<x, f', g'>>},
                 !.pc = "step"]
    /\ UNCHANGED heap

\* A variant of first_test that tries the absolute function test before
\* the gradient test.
first_test_function_first(d, gnorm, gtest) ==
    LET t == d.p.tol
        snorm == Abs(x - d.x0)
    IN IF Le(f, t.fatol) THEN STR_FATOL
       ELSE IF Halves(gnorm) <= gtest THEN STR_GTEST
       ELSE IF d.iters > 0
               /\ Halves(Abs(f.v - d.f0.v))
                     <= t.frtol * Max(Abs(f.v), Abs(d.f0.v))
            THEN STR_FRTOL
       ELSE IF xtest(d.p)
               /\ (snorm <= t.xatol
                     \/ (t.xrtol > 0 /\ Halves(snorm) <= t.xrtol * Abs(x)))
            THEN STR_XTEST
       ELSE <<>>

\* The reason of the first test of lines 205-226 that triggers, <<>> when
\* none does; gnorm is the norm of the projected gradient and gtest the
\* threshold of the gradient test.
first_test(d, gnorm, gtest) ==
    LET t == d.p.tol
        snorm == Abs(x - d.x0)
    IN IF Halves(gnorm) <= gtest THEN STR_GTEST
       ELSE IF Le(f, t.fatol) THEN STR_FATOL
       ELSE IF d.iters > 0
               /\ Halves(Abs(f.v - d.f0.v))
                     <= t.frtol * Max(Abs(f.v), Abs(d.f0.v))
            THEN STR_FRTOL
       ELSE IF xtest(d.p)
               /\ (snorm <= t.xatol
                     \/ (t.xrtol > 0 /\ Halves(snorm) <= t.xrtol * Abs(x)))
            THEN STR_XTEST
       ELSE <<>>

\* Lines 203-226: the tests made on a new iterate.
lbfgsb_line203 ==
    /\ drv.pc = "handle"
    /\ drv.task = LBFGSB_NEW_X
    /\ \E gnorm \in Norms :
         LET gtest == IF gtest_unset(drv.gtest)
                      THEN Max(Halves(drv.p.tol.gatol),
                               drv.p.tol.grtol * gnorm)
                      ELSE drv.gtest[1]
             why == first_test(drv, gnorm, gtest)
             d1 == [drv EXCEPT !.gtest = <<gtest>>, !.gnorm = <<gnorm>>,
                               !.events = Append(@, [f |-> f, gnorm |-> gnorm,
                                                     why |-> why, x |-> x,
                                                     xp |-> drv.x0,
                                                     evals |-> drv.evals,
                                                     iters |-> drv.iters]),
                               !.pc = "count"]
         IN IF why # <<>>
            THEN /\ Y_lbfgsb_stop(why)
                 /\ drv' = [d1 EXCEPT !.task = last'.ret,
                                      !.forced = Append(@, why)]
            ELSE /\ drv' = d1
                 /\ last' = Did("lbfgsb:new_x", NoTask, FALSE, FALSE,
                                <<>>, <<>>, 0)
                 /\ UNCHANGED <<ctxvars, x, f, g>>
    /\ UNCHANGED heap

\* Lines 227-241: the count of iterations and the end of the pass.
lbfgsb_line227 ==
    /\ drv.pc = "count"
    /\ IF reached(drv.iters + 1, drv.p.maxiter)
       THEN /\ Y_lbfgsb_stop(STR_TOO_MANY_ITERS)
            /\ drv' = after_pass(
                         [drv EXCEPT !.iters = @ + 1,
                                     !.task = last'.ret,
                                     !.forced = Append(@, STR_TOO_MANY_ITERS)],
                         last'.ret)
       ELSE /\ drv' = after_pass([drv EXCEPT !.iters = @ + 1], drv.task)
            /\ last' = Did("lbfgsb:count", NoTask, FALSE, FALSE, <<>>, <<>>, 0)
            /\ UNCHANGED <<ctxvars, x, f, g>>
    /\ UNCHANGED heap

\* Lines 233-241 for a task that is neither FG nor NEW_X.
lbfgsb_line233 ==
    /\ drv.pc = "handle"
    /\ drv.task \notin {LBFGSB_FG, LBFGSB_NEW_X}
    /\ drv' = after_pass(drv, drv.task)
    /\ last' = Did("lbfgsb:other", NoTask, FALSE, FALSE, <<>>, <<>>, 0)
    /\ UNCHANGED <<ctxvars, x, f, g, heap>>

\* Lines 244-253: the best point is restored and x is returned.
lbfgsb_line244 ==
    /\ drv.pc = "exit"
    /\ IF Lt(drv.best_f, f)
       THEN /\ f' = drv.best_f
            /\ g' = drv.best_g[1]
            /\ x' = drv.best_x[1]
       ELSE UNCHANGED <<x, f, g>>
    /\ drv' = [drv EXCEPT !.ret = <<x'>>, !.pc = "done"]
    /\ last' = Did("lbfgsb:return", NoTask, FALSE, FALSE, <<>>, <<>>, 0)
    /\ UNCHANGED <<ctxvars, heap>>

\* The example program clbfgsb_test1.c: main has no limit, no tolerance and
\* no test of its own.
NoSettings ==
    [x0 |-> MaxVal, maxeval |-> INFINITY, maxiter |-> INFINITY,
     tol |-> [fatol |-> NEG_INFINITY, frtol |-> 0, gatol |-> 0, grtol |-> 0,
              xatol |-> 0, xrtol |-> 0],
     bounds |-> "none"]

\* main of clbfgsb_test1.c before line 56.
Started == [Called(NoSettings) EXCEPT !.pc = "main"]

\* Lines 56-60: ctx = lbfgsb_create(n, m).
main_line56 ==
    /\ drv.pc = "main"
    /\ lbfgsb_create(1, MEM_DEFAULT, 0)
    /\ drv' = [drv EXCEPT !.pc = "main_init"]

\* Lines 63-86: the bounds (the lowest and the highest values of the
\* model), the settings, x, f = NaN, and g that is not initialized.
main_line63 ==
    /\ drv.pc = "main_init"
    /\ lower' = [i \in 1..siz |-> Fin(0)]
    /\ upper' = [i \in 1..siz |-> Fin(MaxBound)]
    /\ print' = 1
    /\ factr' = Fin(1)
    /\ pgtol' = Fin(0)
    /\ x' = MaxVal
    /\ f' = NAN
    /\ g' \in Values
    /\ drv' = [drv EXCEPT !.pc = "main_step"]
    /\ last' = Did("main:init", NoTask, FALSE, FALSE, <<>>, <<>>, 0)
    /\ UNCHANGED <<siz, mem, task, nbd, wtask, isave, heap>>

\* Line 95: task = lbfgsb_iterate(ctx, x, &f, g).
main_line95 ==
    /\ drv.pc = "main_step"
    /\ drv.steps < MaxSteps
    /\ lbfgsb_iterate(DriverOutcomes)
    /\ drv' = [drv EXCEPT !.task = last'.ret, !.steps = @ + 1,
                          !.pc = "main_handle"]
    /\ UNCHANGED heap

\* Lines 97-102: f = compute_fg(x, g, n); continue.
main_line97 ==
    /\ drv.pc = "main_handle"
    /\ drv.task = LBFGSB_FG
    /\ compute_fg
    /\ drv' = [drv EXCEPT !.calls = @ + 1,
                          !.seen = @ \cup {<<x, f', g'>>},
                          !.pc = "main_step"]
    /\ UNCHANGED heap

\* Lines 104-107: a new iterate; continue.
main_line104 ==
    /\ drv.pc = "main_handle"
    /\ drv.task = LBFGSB_NEW_X
    /\ drv' = [drv EXCEPT !.pc = "main_step"]
    /\ last' = Did("main:new_x", NoTask, FALSE, FALSE, <<>>, <<>>, 0)
    /\ UNCHANGED <<ctxvars, x, f, g, heap>>

\* Lines 109-115: break, lbfgsb_destroy(ctx) and return.
main_line109 ==
    /\ drv.pc = "main_handle"
    /\ drv.task \notin {LBFGSB_FG, LBFGSB_NEW_X}
    /\ lbfgsb_destroy
    /\ drv' = [drv EXCEPT !.pc = "main_done"]

DriverInit ==
    /\ Uncreated
    /\ \/ \E s \in Settings : drv = Called(s)
       \/ drv = Started

DriverNext ==
    \/ lbfgsb_line148
    \/ lbfgsb_line149
    \/ lbfgsb_line160
    \/ lbfgsb_line178
    \/ lbfgsb_line180
    \/ lbfgsb_line184
    \/ lbfgsb_line203
    \/ lbfgsb_line227
    \/ lbfgsb_line233
    \/ lbfgsb_line244
    \/ main_line56
    \/ main_line63
    \/ main_line95
    \/ main_line97
    \/ main_line104
    \/ main_line109

SpecDriver == DriverInit /\ [][DriverNext]_vars


\* The triples <<x, f, g>> of the calls of fg made so far.
Evaluated == drv.seen

\* The run of the driver has returned.
Returned == drv.pc = "done"

\* C17: the f that lbfgsb returns is less than or equal to every value that
\* fg returned during the run.
C17_BestPointTracking ==
    Returned => \A t \in Evaluated : Le(f, t[2])

\* A run that returns after fg gave a value worse than the returned one.
C17_Witness ==
    /\ Returned
    /\ Cardinality(Evaluated) >= 2
    /\ \E t \in Evaluated : Lt(f, t[2])

\* C18: in every run that called fg at least once, the x that lbfgsb returns
\* is a point where fg was evaluated, and the returned f and g are the value
\* and the gradient that fg produced there, however the run ends.
C18_ReturnsEvaluatedPoint ==
    (Returned /\ drv.evals >= 1) => <<drv.ret[1], f, g>> \in Evaluated

\* A run stopped by the limit on evaluations while the kernel asked for a
\* new evaluation, that returns a point where fg was never called.
C18_Witness ==
    /\ Returned
    /\ drv.evals >= 1
    /\ drv.forced = <<STR_TOO_MANY_EVALS>>
    /\ \A t \in Evaluated : t[1] # drv.ret[1]

\* C19: when lbfgsb returns, the task of the context is CONVERGENCE, STOP,
\* WARNING or ERROR, and when the driver forced the stop the reason of the
\* context is the reason string of the test that triggered (the last one
\* when two did in the same pass).
C19_TerminalTaskAndReason ==
    Returned =>
        /\ task \in {LBFGSB_CONVERGENCE, LBFGSB_STOP, LBFGSB_WARNING,
                     LBFGSB_ERROR}
        /\ task = drv.task
        /\ drv.forced # <<>> => reason = drv.forced[Len(drv.forced)]

\* A run that the driver stopped on a test of a new iterate.
C19_Witness ==
    /\ Returned
    /\ drv.forced # <<>>
    /\ task = LBFGSB_STOP
    /\ reason \in {STR_GTEST, STR_FATOL, STR_FRTOL, STR_XTEST}

\* C20: when lbfgsb returns, its output argument status holds the code of
\* the task that ended the run.
C20_StatusReported ==
    Returned => drv.status = task

\* A run ended by a warning whose status was never set.
C20_Witness ==
    /\ Returned
    /\ task = LBFGSB_WARNING
    /\ drv.status = NoTask

\* The text s contains the text w.
Mentions(s, w) ==
    \E i \in 1..(Len(s) - Len(w) + 1) : SubSeq(s, i, i + Len(w) - 1) = w

EVALUATIONS == <<"e","v","a","l","u","a","t","i","o","n","s">>

\* The driver stopped the run because of the limit on evaluations.
StoppedByMaxEval ==
    drv.forced # <<>> /\ Mentions(drv.forced[Len(drv.forced)], EVALUATIONS)

\* C21: when the limit on evaluations is reached, lbfgsb forces the end of
\* the run with the task WARNING (not STOP) and a reason that mentions the
\* evaluations, and returns with that task.
C21_MaxEvalForcesWarning ==
    StoppedByMaxEval =>
        /\ task = LBFGSB_WARNING
        /\ drv.task = LBFGSB_WARNING
        /\ Mentions(reason, EVALUATIONS)
        /\ drv.pc \in {"exit", "done"}

\* C21 as stated: the forced task is STOP.
C21_MaxEvalForcesStop ==
    StoppedByMaxEval =>
        /\ task = LBFGSB_STOP
        /\ Mentions(reason, EVALUATIONS)

\* A run that returned after the limit on evaluations stopped it.
C21_Witness ==
    /\ Returned
    /\ StoppedByMaxEval
    /\ drv.evals >= 1


-----------------------------------------------------------------------------
(* The accessors of the context. *)

\* The members extract_context knows.
Members ==
    {"dims", "epsmch", "factr", "lower", "mem", "niters", "nevals", "nskips",
     "pgnorm", "pgtol", "print", "reason", "siz", "step", "task", "theta",
     "upper"}

\* The getters of the C library.
Getters ==
    {"task", "mem", "siz", "lower", "upper", "factr", "pgtol", "print",
     "latest_x"}

\* extract_context: ctx.name in Yorick; a name that is no member raises the
\* error "bad member".  The value is pushed on the stack of the interpreter.
extract_context(name) ==
    /\ last' = Did("extract", NoTask, FALSE, name \notin Members, <<name>>,
                   IF name = "reason" THEN reason ELSE <<>>, 0)
    /\ UNCHANGED <<ctxvars, x, f, g>>

\* lbfgsb_get_task, lbfgsb_get_mem, ... lbfgsb_get_latest_x: each returns a
\* field of the context, or an address in it.
lbfgsb_get(name) ==
    /\ last' = Did("get", NoTask, FALSE, FALSE, <<name>>, <<>>, 0)
    /\ UNCHANGED <<ctxvars, x, f, g>>

\* A variant of shares: no accessor copies.
shares_always(op, name) == TRUE

\* The array an accessor of the bounds gives is the array of the context
\* itself (lbfgsb_get_lower and lbfgsb_get_upper return ctx->lower and
\* ctx->upper as double*), not a copy (push_copy_d in extract_context).
shares(op, name) == op = "get" /\ name \in {"lower", "upper"}

\* The caller stores v at index i of the array of bounds it obtained by the
\* latest access.
write_view(i, v) ==
    /\ last.op \in {"extract", "get"}
    /\ last.str \in {<<"lower">>, <<"upper">>}
    /\ i \in 1..siz
    /\ IF shares(last.op, last.str[1])
       THEN /\ lower' = IF last.str[1] = "lower"
                        THEN [lower EXCEPT ![i] = v] ELSE lower
            /\ upper' = IF last.str[1] = "upper"
                        THEN [upper EXCEPT ![i] = v] ELSE upper
       ELSE UNCHANGED <<lower, upper>>
    /\ last' = Did("write_view", NoTask, FALSE, FALSE,
                   <<last.op, last.str[1]>>, <<>>, i)
    /\ UNCHANGED <<siz, mem, factr, pgtol, print, task, nbd, wtask, isave,
                   x, f, g>>

AccessInit == Init /\ siz = MaxSiz /\ x = 0 /\ g = 0 /\ f = Fin(0)

AccessOutcomes ==
    KernelOutcomes({1}, {1}, {1}, {K_FG_START, K_CONVERGENCE}, {MaxCount})

AccessIterate ==
    /\ lbfgsb_iterate(AccessOutcomes)
    /\ UNCHANGED <<heap, drv>>

AccessExtract ==
    /\ \E name \in Members \cup {"other"} : extract_context(name)
    /\ UNCHANGED <<heap, drv>>

AccessGet ==
    /\ \E name \in Getters : lbfgsb_get(name)
    /\ UNCHANGED <<heap, drv>>

AccessWrite ==
    /\ \E i \in 1..MaxSiz : write_view(i, Fin(0))
    /\ UNCHANGED <<heap, drv>>

\* The texts a C caller forces: a stop, and the text of a new run.
AccessTexts == {PFX_STOP, STR_START}

AccessSetTask ==
    /\ \E str \in AccessTexts : lbfgsb_set_task(str)
    /\ UNCHANGED <<heap, drv>>

AccessReset ==
    /\ lbfgsb_reset(0)
    /\ UNCHANGED <<heap, drv>>

AccessNext ==
    \/ AccessIterate
    \/ AccessExtract
    \/ AccessGet
    \/ AccessWrite
    \/ AccessSetTask
    \/ AccessReset

SpecAccess == AccessInit /\ [][AccessNext]_vars

\* The step is a read of the context by an accessor.
IsRead == last'.op \in {"extract", "get"}

\* The step is a write in the array an accessor of the bounds gave.
IsViewWrite(ops) == last'.op = "write_view" /\ last'.str[1] \in ops

\* C22: reading an accessor never changes the context; a write in the array
\* that ctx.lower or ctx.upper gave in Yorick (a copy) does not change the
\* bounds of the context, while a write in the array that lbfgsb_get_lower
\* or lbfgsb_get_upper returned changes the bound of the context itself.
C22_ReadsKeepContext ==
    [][/\ IsRead => UNCHANGED <<ctxvars, x, f, g>>
       /\ IsViewWrite({"extract"}) => UNCHANGED <<ctxvars, x, f, g>>
       /\ IsViewWrite({"get"}) =>
            /\ UNCHANGED <<siz, mem, factr, pgtol, print, task, nbd, wtask,
                           isave, x, f, g>>
            /\ IF last'.str[2] = "lower"
               THEN /\ lower' = [lower EXCEPT ![last'.n] = Fin(0)]
                    /\ upper' = upper
               ELSE /\ upper' = [upper EXCEPT ![last'.n] = Fin(0)]
                    /\ lower' = lower
      ]_vars

\* C22 as stated: no value an accessor of the bounds gave lets the caller
\* change the bounds of the context.
C22_BoundsViewsReadOnly ==
    [][(IsRead \/ IsViewWrite({"extract", "get"}))
          => UNCHANGED <<ctxvars, x, f, g>>]_vars

\* The caller wrote in the copy that ctx.lower gave, and the context kept its
\* bound.
C22_Witness ==
    /\ last.op = "write_view"
    /\ last.str = <<"extract", "lower">>
    /\ lower[last.n] = NEG_INFINITY
    /\ task # LBFGSB_START

-----------------------------------------------------------------------------
(* The steps of the protocol. *)

\* C23: every lbfgsb_iterate made while the task is not ERROR (START with
\* valid bounds, FG, NEW_X, CONVERGENCE, STOP, WARNING) invokes the kernel
\* once, then the task is the decoding of the text the kernel left, and the
\* value returned is that task.
C23_LiveStepRunsKernel ==
    [][(/\ last'.op = "iterate"
        /\ task # LBFGSB_ERROR
        /\ task = LBFGSB_START => BadPairs = {})
          => /\ last'.kernel
             /\ \E k \in ProtoOutcomes :
                  /\ wtask' = k.text
                  /\ isave' = k.isave
                  /\ x' = k.x
             /\ task' = get_task(wtask')
             /\ last'.ret = task']_vars

\* The kernel was resumed by a step made in a terminal task other than
\* ERROR, and asked for a new iterate.
C23_Witness ==
    /\ last.op = "iterate"
    /\ last.pre \in {LBFGSB_CONVERGENCE, LBFGSB_STOP, LBFGSB_WARNING}
    /\ last.kernel
    /\ task = LBFGSB_NEW_X
    /\ last.ret = LBFGSB_NEW_X

\* The classes of the bounds the context holds.
BoundClasses == [i \in 1..siz |-> SentinelClass(lower[i], upper[i])]

\* The step is an lbfgsb_iterate.
IsStep == last'.op = "iterate"

\* The step is the first lbfgsb_iterate of a run: the task is START after
\* the creation or a reset, or was START until the caller forced a task.
IsFirstStep ==
    /\ IsStep
    /\ \/ task = LBFGSB_START /\ last.op \in {"create", "reset"}
       \/ last.op = "set_task" /\ last.pre = LBFGSB_START

\* The step is an lbfgsb_iterate of a run whose first one was made before.
IsLaterStep ==
    /\ IsStep
    /\ \/ last.op = "iterate"
       \/ last.op = "set_task" /\ last.pre # LBFGSB_START

\* C24: the bounds are classified by the steps that begin with the task
\* START and by no other step or operation: in a run whose first step begins
\* in START that step classifies, and no later step does, whatever the bounds
\* became, unless the caller forced the task START again.
C24_ClassifiedAtStartOnly ==
    [][/\ (IsStep /\ task = LBFGSB_START) => nbd' = BoundClasses
       /\ (IsStep /\ task # LBFGSB_START) => nbd' = nbd
       /\ last'.op \in {"set_task", "write_view", "get", "extract"}
            => nbd' = nbd]_vars

\* C24 as stated: the first step of each run classifies the bounds, and no
\* later step of the run does, even after a forced task.
C24_ClassifiedOncePerRun ==
    [][/\ IsFirstStep => nbd' = BoundClasses
       /\ IsLaterStep => nbd' = nbd]_vars

\* A later step of a run left the classes as the first step computed them,
\* though a bound was changed in between.
C24_Witness ==
    /\ last.op = "iterate"
    /\ last.pre = LBFGSB_FG
    /\ last.kernel
    /\ nbd # BoundClasses

-----------------------------------------------------------------------------
(* The loop of the driver lbfgsb. *)

Terminal ==
    {LBFGSB_CONVERGENCE, LBFGSB_STOP, LBFGSB_WARNING, LBFGSB_ERROR}

\* C25: in lbfgsb and in main of clbfgsb_test1.c a step that returned FG
\* is followed either by one call of fg (compute_fg) at the x of that step,
\* which leaves x as it is, and then by the next step, or by a forced
\* termination that leaves the loop; and the kernel is resumed from FG only
\* with the f and g just computed at x.
C25_EvaluateBetweenSteps ==
    [][/\ (drv.pc \in {"handle", "main_handle"} /\ drv.task = LBFGSB_FG
            /\ drv'.pc # drv.pc) =>
            \/ /\ last'.op = "compute_fg"
               /\ drv'.calls = drv.calls + 1
               /\ x' = x
               /\ f' = objective(x)
               /\ g' = gradient(x)
               /\ drv'.pc = IF drv.pc = "handle" THEN "step" ELSE "main_step"
            \/ /\ last'.op = "stop"
               /\ task' \in Terminal
               /\ drv'.pc = "exit"
               /\ UNCHANGED <<x, f, g>>
       /\ (drv.pc \in {"step", "main_step"} /\ task = LBFGSB_FG
            /\ last'.op \in {"Y_iterate", "iterate"}) =>
            /\ last.op = "compute_fg"
            /\ <<x, f, g>> \in Evaluated
            /\ f = objective(x)
            /\ g = gradient(x)]_vars

\* The kernel was resumed from FG after the call of fg it asked for.
C25_Witness ==
    /\ last.op = "Y_iterate"
    /\ last.pre = LBFGSB_FG
    /\ last.kernel
    /\ drv.calls = 2

\* C26 as stated: after a stopping test forced the termination, the driver
\* makes one more step on the context before it returns.
C26_OneStepAfterForcedStop ==
    (Returned /\ drv.forced # <<>>) => drv.flushes = 1

\* C26: after a stopping test forced the termination, lbfgsb makes no step
\* on the context: it leaves the loop and returns.
C26_NoStepAfterForcedStop ==
    /\ drv.flushes = 0
    /\ drv.forced # <<>> => drv.pc \in {"count", "exit", "done"}

\* A run that returned after a test on a new iterate had stopped it, with
\* steps still allowed.
C26_Witness ==
    /\ Returned
    /\ drv.forced # <<>>
    /\ task = LBFGSB_STOP
    /\ drv.steps < MaxSteps

\* The program is lbfgsb, whose variable evals counts the calls of fg.
InDriver ==
    drv.pc \in {"create", "config", "init", "step", "handle", "count", "exit",
                "done", "aborted"}

\* C27: the number of calls of fg never exceeds maxeval, and when the limit
\* on evaluations ends the run exactly maxeval calls were made.
C27_EvaluationLimit ==
    /\ Le(Fin(drv.calls), drv.p.maxeval)
    /\ InDriver => drv.evals = drv.calls
    /\ StoppedByMaxEval => Fin(drv.calls) = drv.p.maxeval

\* A run that the limit stopped after two evaluations.
C27_Witness ==
    /\ Returned
    /\ StoppedByMaxEval
    /\ drv.calls = 2
    /\ drv.p.maxeval = Fin(2)

\* The number of NEW_X events the driver has handled.
NewXEvents == Len(drv.events)

\* C28: the driver ends the run at the first NEW_X event at which the number
\* of NEW_X events is at least maxiter, so that no run handles more than
\* max(maxiter, 1) of them.
C28_IterationLimit ==
    /\ drv.p.maxiter # INFINITY => NewXEvents <= Max(drv.p.maxiter.v, 1)
    /\ drv.iters \in {NewXEvents, NewXEvents - 1}
    /\ (NewXEvents >= 1 /\ Le(drv.p.maxiter, Fin(NewXEvents))
          /\ drv.pc # "count")
         => /\ drv.pc \in {"exit", "done"}
            /\ drv.forced[Len(drv.forced)] = STR_TOO_MANY_ITERS
            /\ task = LBFGSB_WARNING

\* A run that the limit on iterations stopped at its second NEW_X event.
C28_Witness ==
    /\ Returned
    /\ NewXEvents = 2
    /\ drv.p.maxiter = Fin(2)
    /\ drv.forced = <<STR_TOO_MANY_ITERS>>

\* The relative function test as documented, for the event k: the value of
\* f is compared with the one at the previous event.
RelativeTest(k) ==
    LET fk == drv.events[k].f.v
        fp == drv.events[k - 1].f.v
    IN Halves(Abs(fk - fp)) <= drv.p.tol.frtol * Max(Abs(fk), Abs(fp))

\* C29: the relative function test is not made at the first NEW_X event,
\* and at every later one, when the tests made before it do not trigger,
\* it triggers if and only if |f - f_prev| <= frtol * max(|f|, |f_prev|),
\* f_prev being the value of f at the previous NEW_X event.
C29_RelativeTestUsesPreviousF ==
    \A k \in 1..NewXEvents :
        /\ k = 1 => drv.events[k].why # STR_FRTOL
        /\ (k > 1 /\ drv.events[k].why \notin {STR_GTEST, STR_FATOL})
              => (drv.events[k].why = STR_FRTOL <=> RelativeTest(k))

\* Two NEW_X events with the same value of f, not 0, and the relative test
\* did not trigger at the second one.
C29_Witness ==
    /\ NewXEvents = 2
    /\ drv.p.tol.frtol = 1
    /\ drv.events[1].f = Fin(1)
    /\ drv.events[2].f = Fin(1)
    /\ drv.events[2].why = <<>>

\* The threshold of the gradient test, from the norm at the first event.
Threshold ==
    Max(Halves(drv.p.tol.gatol), drv.p.tol.grtol * drv.events[1].gnorm)

\* C30: the threshold of the gradient test is computed at the first NEW_X
\* event, from the norm of the projected gradient there, and every gradient
\* test of the run compares the norm with that value.
C30_ThresholdFrozen ==
    /\ NewXEvents = 0 => drv.gtest = <<>>
    /\ NewXEvents >= 1 =>
         /\ drv.gtest = <<Threshold>>
         /\ \A k \in 1..NewXEvents :
              drv.events[k].why = STR_GTEST
                 <=> Halves(drv.events[k].gnorm) <= Threshold

\* The gradient test triggered at the second event against the threshold of
\* the first one, which the norm of the second one would not have given.
C30_Witness ==
    /\ NewXEvents = 2
    /\ drv.p.tol.grtol = 1
    /\ drv.events[1].gnorm = 2
    /\ drv.events[2].gnorm = 1
    /\ drv.events[2].why = STR_GTEST

\* Lines 216-220 on the event e: the step from e.xp to e.x is small enough.
small_step(p, e) ==
    LET snorm == Abs(e.x - e.xp)
    IN \/ snorm <= p.tol.xatol
       \/ (p.tol.xrtol > 0 /\ Halves(snorm) <= p.tol.xrtol * Abs(e.x))

FunctionOff(p) == p.tol.fatol = NEG_INFINITY /\ p.tol.frtol = 0
GradientOff(p) == p.tol.gatol = 0 /\ p.tol.grtol = 0
StepOff(p) == p.tol.xatol = 0 /\ p.tol.xrtol = 0

\* C32 as stated: with the tolerance of a family at 0, no NEW_X event ends
\* with a reason of that family, whatever f, the norm of the projected
\* gradient and x are.
C32_FamilyOffNeverStops ==
    \A k \in 1..NewXEvents :
        LET e == drv.events[k]
        IN /\ FunctionOff(drv.p) => e.why \notin {STR_FATOL, STR_FRTOL}
           /\ GradientOff(drv.p) => e.why # STR_GTEST
           /\ StepOff(drv.p) => e.why # STR_XTEST

\* C32: with xtol = 0 no NEW_X event ends with the reason of the step
\* test; with gtol = 0 one ends with the reason of the gradient test only
\* when the norm of the projected gradient is exactly 0; with ftol = 0 one
\* ends with a reason of the function tests only when f is -Inf, or, after
\* the first event, when f is exactly the value it is compared with.
C32_FamilyOffStopsOnEquality ==
    \A k \in 1..NewXEvents :
        LET e == drv.events[k]
        IN /\ FunctionOff(drv.p) =>
                /\ e.why = STR_FATOL => e.f = NEG_INFINITY
                /\ e.why = STR_FRTOL => e.iters > 0 /\ e.f = drv.f0
           /\ GradientOff(drv.p) => (e.why = STR_GTEST => e.gnorm = 0)
           /\ StepOff(drv.p) => e.why # STR_XTEST

\* With ftol = 0 and gtol = 0, a run went through a NEW_X event where x had
\* not moved and the norm was not 0, and it was ended there by the step
\* test, the only family left on.
C32_Witness ==
    /\ InDriver
    /\ FunctionOff(drv.p)
    /\ GradientOff(drv.p)
    /\ ~StepOff(drv.p)
    /\ NewXEvents = 2
    /\ drv.events[2].x = drv.events[2].xp
    /\ drv.events[2].gnorm > 0
    /\ drv.events[2].why = STR_XTEST
    /\ task = LBFGSB_STOP

-----------------------------------------------------------------------------
(* The time-controlled example lbfgsb_test3: a loop on lbfgsb_iterate with  *)
(* a limit on the CPU time, on the evaluations and on the iterations.  The  *)
(* clock of timer is a counter that never goes back.                        *)

\* The latest value of the clock.
MaxTime == 2

\* The limits maxtime given to lbfgsb_test3.
MaxTimes == 0..(MaxTime - 1)

STR_CPU_TIME == <<"S","T","O","P",":"," ","C","P","U"," ","e","x","c","e","e","d","i","n","g"," ","t","h","e"," ","t","i","m","e"," ","l","i","m","i","t">>
STR_STOP_TOO_MANY_ITERS == <<"S","T","O","P",":"," ","T","o","o"," ","m","a","n","y"," ","i","t","e","r","a","t","i","o","n","s">>
STR_PG_SMALL == <<"S","T","O","P",":"," ","T","h","e"," ","p","r","o","j","e","c","t","e","d"," ","g","r","a","d","i","e","n","t"," ","i","s"," ","s","u","f","f","i","c","i","e","n","t","l","y"," ","s","m","a","l","l">>

\* lbfgsb_test3 before line 241, called with the limits given; samples is
\* the list of the readings of the clock made in the loop: the task in
\* which each was made, the time elapsed since t0 and whether the run was
\* stopped for time there.
Timed(maxtime, maxeval, maxiter) ==
    [pc |-> "t3_create", maxtime |-> maxtime, maxeval |-> maxeval,
     maxiter |-> maxiter, task |-> NoTask, steps |-> 0, now |-> 0, t0 |-> 0,
     samples |-> <<>>, forced |-> <<>>]

\* A variant of over_time that never finds the limit passed.
over_time_never(t, maxtime) == FALSE

\* Line 278: t > maxtime.
over_time(t, maxtime) == t > maxtime

\* Lines 241-242: lbfgsb_create(n, m).
test3_line241 ==
    /\ drv.pc = "t3_create"
    /\ lbfgsb_create(1, MEM_DEFAULT, 0)
    /\ drv' = [drv EXCEPT !.pc = "t3_config"]

\* Lines 241-251: lbfgsb_config with the bounds and the settings.
test3_line243 ==
    /\ drv.pc = "t3_config"
    /\ Y_lbfgsb_config(<<Kw("lower", "scalar", <<Fin(0)>>),
                         Kw("upper", "scalar", <<Fin(MaxBound)>>)>>
                       \o DriverConfig)
    /\ drv' = [drv EXCEPT !.pc = IF last'.err THEN "t3_aborted"
                                 ELSE "t3_init"]
    /\ UNCHANGED heap

\* Lines 254-263: x, f, g and the initial time t0, a reading of the clock.
test3_line254 ==
    /\ drv.pc = "t3_init"
    /\ x' = MaxVal
    /\ f' = Fin(0)
    /\ g' = 0
    /\ \E t \in drv.now..MaxTime :
         drv' = [drv EXCEPT !.pc = "t3_step", !.now = t, !.t0 = t]
    /\ last' = Did("test3:init", NoTask, FALSE, FALSE, <<>>, <<>>, 0)
    /\ UNCHANGED <<ctxvars, heap>>

\* The kernel of the example: as for the driver, with the counts of
\* iterations and of evaluations that niters and nevals read.
TimedOutcomes ==
    {k \in KernelOutcomes(Values, {f.v}, {g}, DriverKernelTexts, 0..MaxCount) :
        /\ get_task(k.text) # LBFGSB_FG => k.x = x
        /\ k.isave.skip = 0}

\* Line 270: task = lbfgsb_iterate(ctx, x, f, g).
test3_line270 ==
    /\ drv.pc = "t3_step"
    /\ drv.steps < MaxSteps
    /\ Y_lbfgsb_iterate([d |-> ctx_dims, shape |-> "same"], "number",
                        [d |-> ctx_dims, shape |-> "same"], TimedOutcomes)
    /\ drv' = [drv EXCEPT !.task = last'.ret, !.steps = @ + 1,
                          !.pc = IF last'.err THEN "t3_aborted"
                                 ELSE "t3_handle"]
    /\ UNCHANGED heap

\* Lines 272-296 and 328-332: on a request for f and g, the clock is read
\* and the run is stopped when the time elapsed is over maxtime; else it is
\* stopped when nevals is at maxeval; else f and g are computed and the
\* loop goes on.  A stopped run leaves the loop.
test3_line272 ==
    /\ drv.pc = "t3_handle"
    /\ drv.task = LBFGSB_FG
    /\ \E now \in drv.now..MaxTime :
         LET t == now - drv.t0
             late == over_time(t, drv.maxtime)
             d1 == [drv EXCEPT !.now = now,
                               !.samples = Append(@, [task |-> drv.task,
                                                      t |-> t,
                                                      stopped |-> late])]
         IN IF late
            THEN /\ Y_lbfgsb_stop(STR_CPU_TIME)
                 /\ drv' = [d1 EXCEPT !.task = last'.ret,
                                      !.forced = Append(@, STR_CPU_TIME),
                                      !.pc = "t3_done"]
            ELSE IF reached(isave.nfg, drv.maxeval)
            THEN /\ Y_lbfgsb_stop(STR_STOP_TOO_MANY_EVALS)
                 /\ drv' = [d1 EXCEPT !.task = last'.ret,
                                      !.forced =
                                          Append(@, STR_STOP_TOO_MANY_EVALS),
                                      !.pc = "t3_done"]
            ELSE /\ compute_fg
                 /\ drv' = [d1 EXCEPT !.pc = "t3_step"]
    /\ UNCHANGED heap

\* Lines 298-326 and 328-332: on a new iterate, the run is stopped when
\* niters is at maxiter, and stopped (the reason is replaced) when the norm
\* of the projected gradient, which the kernel keeps, is small enough; the
\* clock is not read.  The loop goes on when the task is still NEW_X.
test3_line298 ==
    /\ drv.pc = "t3_handle"
    /\ drv.task = LBFGSB_NEW_X
    /\ \E small \in BOOLEAN :
         LET why == IF small THEN STR_PG_SMALL
                    ELSE IF reached(isave.iter, drv.maxiter)
                    THEN STR_STOP_TOO_MANY_ITERS
                    ELSE <<>>
         IN IF why # <<>>
            THEN /\ Y_lbfgsb_stop(why)
                 /\ drv' = [drv EXCEPT !.task = last'.ret,
                                       !.forced = Append(@, why),
                                       !.pc = "t3_done"]
            ELSE /\ drv' = [drv EXCEPT !.pc = "t3_step"]
                 /\ last' = Did("test3:new_x", NoTask, FALSE, FALSE,
                                <<>>, <<>>, 0)
                 /\ UNCHANGED <<ctxvars, x, f, g>>
    /\ UNCHANGED heap

\* Lines 328-332 for a task that is neither FG nor NEW_X: the loop is left.
test3_line328 ==
    /\ drv.pc = "t3_handle"
    /\ drv.task \notin {LBFGSB_FG, LBFGSB_NEW_X}
    /\ drv' = [drv EXCEPT !.pc = "t3_done"]
    /\ last' = Did("test3:other", NoTask, FALSE, FALSE, <<>>, <<>>, 0)
    /\ UNCHANGED <<ctxvars, x, f, g, heap>>

TimedInit ==
    /\ Uncreated
    /\ \E mt \in MaxTimes, me \in {Fin(1), INFINITY},
          mi \in {Fin(1), INFINITY} : drv = Timed(mt, me, mi)

TimedNext ==
    \/ test3_line241
    \/ test3_line243
    \/ test3_line254
    \/ test3_line270
    \/ test3_line272
    \/ test3_line298
    \/ test3_line328

SpecTimed == TimedInit /\ [][TimedNext]_vars

\* The run was stopped for time.
StoppedForTime == STR_CPU_TIME \in {drv.forced[k] : k \in 1..Len(drv.forced)}

\* C33 as stated: the clock is read at the NEW_X events, and a run is
\* stopped for time only at a NEW_X event, never while a request for f and
\* g is pending.
C33_TimeTestedAtNewX ==
    \A k \in 1..Len(drv.samples) : drv.samples[k].task = LBFGSB_NEW_X

\* C33: the clock is read at each request for f and g, before the
\* evaluation, and at no NEW_X event; the run is stopped for time there
\* exactly when the time elapsed is over maxtime, so a run is stopped for
\* time only while a request for f and g is pending.
C33_TimeTestedAtFG ==
    /\ \A k \in 1..Len(drv.samples) :
          /\ drv.samples[k].task = LBFGSB_FG
          /\ drv.samples[k].stopped <=> drv.samples[k].t > drv.maxtime
    /\ StoppedForTime =>
          /\ drv.samples[Len(drv.samples)].stopped
          /\ reason = STR_CPU_TIME

\* After a new iterate that did not end the run, a request for f and g was
\* stopped for time.
C33_Witness ==
    /\ drv.pc = "t3_done"
    /\ StoppedForTime
    /\ Len(drv.samples) = 2
    /\ drv.steps = 3
    /\ task = LBFGSB_STOP

\* The first index whose pair of bounds is invalid.
FirstBad == CHOOSE i \in BadPairs : \A j \in BadPairs : i <= j

\* A first step on bounds of which a pair is invalid.
FailedClassification ==
    task = LBFGSB_START /\ BadPairs # {} /\ last'.op = "iterate"

\* C34 as stated: a classification that fails at some index has changed no
\* constraint class.
C34_FailedClassificationAtomic ==
    [][FailedClassification => nbd' = nbd]_vars

\* C34: a classification that fails at index i has set the class of every
\* index before i to the class of its pair of bounds and has left the
\* classes from i on as they were.
C34_FailedClassificationPartial ==
    [][FailedClassification =>
          \A j \in 1..siz :
              nbd'[j] = IF j < FirstBad
                        THEN SentinelClass(lower[j], upper[j])
                        ELSE nbd[j]]_vars

\* A first step failed on the second pair of bounds after it gave its
\* class to the first pair, whose class was 0 since the creation.
C34_Witness ==
    /\ last.op = "iterate"
    /\ last.pre = LBFGSB_START
    /\ task = LBFGSB_ERROR
    /\ siz = 2
    /\ BadPairs = {2}
    /\ lower[1] = Fin(0) /\ upper[1] = Fin(0)
    /\ nbd = <<2, 0>>

\* C35: when the first step of a run (task START) invokes the kernel, no
\* bound is NaN, lower[i] <= upper[i] for every i, and the class given to
\* the kernel for every i is that of the current pair (lower[i], upper[i]),
\* whatever the classes were before: also after a reset that followed a
\* failed classification or a change of the bounds.
C35_KernelStartsOnClassifiedBounds ==
    [][(task = LBFGSB_START /\ last'.op = "iterate" /\ last'.kernel) =>
          /\ UNCHANGED <<lower, upper>>
          /\ \A i \in 1..siz :
                /\ ~isnan(lower[i])
                /\ ~isnan(upper[i])
                /\ Le(lower[i], upper[i])
                /\ nbd'[i] = SentinelClass(lower[i], upper[i])]_vars

\* The first step of a run invoked the kernel with the classes upper-only
\* and lower-only, none of which is the class the creation leaves.
C35_Witness ==
    /\ Classified
    /\ siz = 2
    /\ lower[1] = NEG_INFINITY /\ upper[1] = Fin(0)
    /\ lower[2] = Fin(0) /\ upper[2] = INFINITY
    /\ nbd = <<3, 1>>
    /\ task = LBFGSB_FG

\* C36: after every operation of the C interface (the creation, a reset,
\* lbfgsb_set_task, a step, also one whose classification of the bounds
\* failed and one that did nothing in the task ERROR), ctx->task is the
\* decoding of the buffer ctx->wrks.task.
C36_TaskIsDecodedBuffer ==
    /\ task = get_task(wtask)
    /\ task = C5_Decoded(wtask)

\* A step in the task ERROR did nothing, and the task is still the decoding
\* of the buffer, which holds the text given to lbfgsb_set_task.
C36_Witness ==
    /\ last.op = "iterate"
    /\ last.pre = LBFGSB_ERROR
    /\ ~last.kernel
    /\ task = LBFGSB_ERROR
    /\ C5_Decoded(wtask) = LBFGSB_ERROR
    /\ ~StartsWith(wtask, PFX_ERROR)

\* The tests of lines 208-222 on the values of the k-th NEW_X event.
GradientTest(k) == Halves(drv.events[k].gnorm) <= Threshold
AbsoluteTest(k) == Le(drv.events[k].f, drv.p.tol.fatol)
ReferenceTest(k) ==
    LET fk == drv.events[k].f.v
    IN /\ drv.events[k].iters > 0
       /\ Halves(Abs(fk - drv.f0.v))
             <= drv.p.tol.frtol * Max(Abs(fk), Abs(drv.f0.v))
StepTest(k) == xtest(drv.p) /\ small_step(drv.p, drv.events[k])

\* The reasons of the convergence tests.
ConvergenceReasons == {STR_GTEST, STR_FATOL, STR_FRTOL, STR_XTEST}

\* C37: at a NEW_X event the convergence tests are tried in the order
\* gradient, absolute function, relative function, step, and only the first
\* that holds forces a stop; when the limit on iterations is reached at the
\* same event it is applied afterwards, and its WARNING and reason replace
\* the STOP of the convergence test.
C37_TestOrderAndLimitLast ==
    /\ \A k \in 1..NewXEvents :
          LET why == drv.events[k].why
          IN /\ why = STR_GTEST <=> GradientTest(k)
             /\ why = STR_FATOL <=> ~GradientTest(k) /\ AbsoluteTest(k)
             /\ why = STR_FRTOL <=>
                   ~GradientTest(k) /\ ~AbsoluteTest(k) /\ ReferenceTest(k)
             /\ why = STR_XTEST <=>
                   /\ ~GradientTest(k) /\ ~AbsoluteTest(k)
                   /\ ~ReferenceTest(k) /\ StepTest(k)
             /\ why \in ConvergenceReasons \cup {<<>>}
    /\ Cardinality({k \in 1..Len(drv.forced) :
                       drv.forced[k] \in ConvergenceReasons}) <= 1
    /\ (/\ InDriver
        /\ drv.pc \in {"exit", "done"}
        /\ NewXEvents >= 1
        /\ drv.events[NewXEvents].why # <<>>
        /\ Le(drv.p.maxiter, Fin(NewXEvents)))
         => /\ drv.forced = <<drv.events[NewXEvents].why, STR_TOO_MANY_ITERS>>
            /\ task = LBFGSB_WARNING
            /\ reason = STR_TOO_MANY_ITERS

\* At the only NEW_X event of a run both the gradient test and the absolute
\* function test held: the gradient test forced the stop, then the limit on
\* iterations replaced it.
C37_Witness ==
    /\ Returned
    /\ NewXEvents = 1
    /\ GradientTest(1)
    /\ AbsoluteTest(1)
    /\ drv.forced = <<STR_GTEST, STR_TOO_MANY_ITERS>>
    /\ task = LBFGSB_WARNING
    /\ reason = STR_TOO_MANY_ITERS

\* The number of step calls C38 allows, for finite limits.
StepBudget == drv.p.maxeval.v + Max(drv.p.maxiter.v, 1)

\* C38: with finite limits maxeval and maxiter, lbfgsb makes at most
\* maxeval + max(maxiter, 1) calls of lbfgsb_iterate, whatever tasks the
\* kernel reports: it is never about to make one more.
C38_StepCallsBounded ==
    (InDriver /\ drv.p.maxeval.cls = "fin" /\ drv.p.maxiter.cls = "fin") =>
        /\ drv.steps <= StepBudget
        /\ drv.pc = "step" => drv.steps < StepBudget

\* A run with maxeval = 2 and maxiter = 2 returned after as many step
\* calls as the limits allow, the last one ended by the limit on the
\* evaluations.
C38_Witness ==
    /\ Returned
    /\ drv.p.maxeval = Fin(2)
    /\ drv.p.maxiter = Fin(2)
    /\ drv.steps = StepBudget
    /\ drv.evals = 2
    /\ drv.forced = <<STR_TOO_MANY_EVALS>>

-----------------------------------------------------------------------------
(* lbfgsb_config called with several keywords, of which some are rejected. *)

\* The values given with each keyword: accepted ones, rejected ones (a NaN
\* and a negative tolerance, a bound array of one element too many), and a
\* keyword lbfgsb_config does not know.
KeywordValues ==
    {Kw("lower", "scalar", <<Fin(0)>>),
     Kw("lower", "array", Fill(Fin(0), MaxSiz + 1)),
     Kw("upper", "scalar", <<Fin(MaxBound)>>),
     Kw("upper", "nil", <<>>),
     Kw("factr", "scalar", <<Fin(0)>>),
     Kw("factr", "scalar", <<NAN>>),
     Kw("pgtol", "scalar", <<Fin(0)>>),
     Kw("pgtol", "scalar", <<Fin(-1)>>),
     Kw("print", "scalar", <<Fin(1)>>),
     Kw("maxiter", "scalar", <<Fin(0)>>)}

\* The keywords of a call: at most MaxKeywords of them, each key once.
MaxKeywords == 3

KeywordLists ==
    UNION {{kws \in [1..n -> KeywordValues] :
               \A i, j \in 1..n : i # j => kws[i].key # kws[j].key} :
           n \in 1..MaxKeywords}

\* The settings of the context.
CurrentSettings ==
    [lower |-> lower, upper |-> upper, factr |-> factr, pgtol |-> pgtol,
     print |-> print]

\* Before any call: the context as created, x, f and g set by the caller.
KeywordsInit ==
    /\ Init
    /\ siz = MaxSiz /\ x = 0 /\ g = 0 /\ f = Fin(0)

\* The number of calls of lbfgsb_config made on the context.
MaxCalls == 2

\* lbfgsb_config, ctx, key1=..., key2=..., key3=...; the keywords given and
\* the settings before the call are kept aside.
KeywordsConfig ==
    /\ IF drv.pc = "none" THEN TRUE ELSE drv.calls < MaxCalls
    /\ \E kws \in KeywordLists :
         /\ Y_lbfgsb_config(kws)
         /\ drv' = [pc |-> "configured", kws |-> kws,
                    before |-> CurrentSettings,
                    calls |-> IF drv.pc = "none" THEN 1 ELSE drv.calls + 1]
    /\ UNCHANGED heap

KeywordsNext == KeywordsConfig

SpecKeywords == KeywordsInit /\ [][KeywordsNext]_vars

\* The keyword kw is rejected by lbfgsb_config for a context of n variables.
RejectedKeyword(kw, n) ==
    CASE kw.key \in {"factr", "pgtol"} ->
           kw.kind # "nil" /\ (kw.val[1] = NAN \/ Exceeds(Fin(0), kw.val[1]))
      [] kw.key \in {"lower", "upper"} ->
           kw.kind = "other" \/ (kw.kind = "array" /\ Len(kw.val) # n)
      [] kw.key = "print" -> FALSE
      [] OTHER -> TRUE

\* The index of the first rejected keyword of the last call, one more than
\* their number when none is rejected.
FirstRejected ==
    LET bad == {i \in 1..Len(drv.kws) : RejectedKeyword(drv.kws[i], siz)}
    IN IF bad = {} THEN Len(drv.kws) + 1
       ELSE CHOOSE i \in bad : \A j \in bad : i <= j

\* The value the key of the last call gives when it stands before the first
\* rejected keyword and is not nil, <<>> otherwise.
GivenBefore(key) ==
    LET at == {i \in 1..(FirstRejected - 1) :
                  drv.kws[i].key = key /\ drv.kws[i].kind # "nil"}
    IN IF at = {} THEN <<>> ELSE <<drv.kws[CHOOSE i \in at : TRUE]>>

\* The bound array a keyword gives.
GivenBound(kw) ==
    IF kw.kind = "scalar" THEN [i \in 1..siz |-> kw.val[1]] ELSE kw.val

\* C39 as a whole: after lbfgsb_config, every keyword standing before the
\* first rejected one has been applied, the rejected one and those after it
\* have not, and the call failed if and only if a keyword was rejected.
C39_ConfigAppliesUntilRejected ==
    drv.pc = "configured" =>
        /\ last.err <=> FirstRejected <= Len(drv.kws)
        /\ lower = IF GivenBefore("lower") = <<>> THEN drv.before.lower
                   ELSE GivenBound(GivenBefore("lower")[1])
        /\ upper = IF GivenBefore("upper") = <<>> THEN drv.before.upper
                   ELSE GivenBound(GivenBefore("upper")[1])
        /\ factr = IF GivenBefore("factr") = <<>> THEN drv.before.factr
                   ELSE GivenBefore("factr")[1].val[1]
        /\ pgtol = IF GivenBefore("pgtol") = <<>> THEN drv.before.pgtol
                   ELSE GivenBefore("pgtol")[1].val[1]
        /\ print = IF GivenBefore("print") = <<>> THEN drv.before.print
                   ELSE GivenBefore("print")[1].val[1].v

\* A call with lower, then a NaN for factr, then print failed: lower was
\* changed, factr and print were not.
C39_Witness ==
    /\ drv.pc = "configured"
    /\ last.err
    /\ drv.kws = <<Kw("lower", "scalar", <<Fin(0)>>),
                   Kw("factr", "scalar", <<NAN>>),
                   Kw("print", "scalar", <<Fin(1)>>)>>
    /\ drv.before.lower = Unbounded(siz).lower
    /\ lower = [i \in 1..siz |-> Fin(0)]
    /\ factr = Fin(FACTR_DEFAULT)
    /\ print = PRINT_DEFAULT

-----------------------------------------------------------------------------
(* The workspace wa of lbfgsb_create and the view lbfgsb_get_latest_x gives *)
(* of it, counted in elements (doubles).  long and size_t have 32 bits and  *)
(* a double 8 bytes; the sizes tried keep every long below 2^31, so that no *)
(* signed operation overflows.                                              *)

\* n*sizeof(double) is computed in size_t, modulo 2^32: the count of bytes
\* starts again from 0 every 2^29 elements.
ElementsWrap == 2^29

\* Line 146: n_wa = (2*m + 5)*n + (11*m + 8)*m.
n_wa(n, m) == (2*m + 5)*n + (11*m + 8)*m

\* Lines 12 and 151: ZEROS(n_wa, double) is malloc((n_wa)*sizeof(double));
\* the number of elements of the block malloc is asked for.
ZEROS(count) == count % ElementsWrap

\* lbfgsb_get_latest_x: j = 3*n + 2*m*n + 11*m*m, the index in wa of the
\* first of the n elements of the view.
latest_x_offset(n, m) == 3*n + 2*m*n + 11*m*m

\* The values of n and of m tried.
LayoutSizes == {1, 2, 3, 10, 100, 196, 1000}
LayoutMemories == {1, 2, 3, 5, 10, 17, 100, 6968}

\* No block, no view.
NoBlock == 0 - 1

\* Before lbfgsb_create(n, m).
Layout(n, m) ==
    [pc |-> "layout", n |-> n, m |-> m, wa |-> NoBlock, j |-> NoBlock]

LayoutInit ==
    /\ Uncreated
    /\ \E n \in LayoutSizes, m \in LayoutMemories : drv = Layout(n, m)

\* lbfgsb_create(n, m): the workspace is allocated, unless malloc fails.
LayoutCreate ==
    /\ drv.pc = "layout"
    /\ drv.n >= 1 /\ drv.m >= 1
    /\ \/ drv' = [drv EXCEPT !.pc = "created",
                              !.wa = ZEROS(n_wa(drv.n, drv.m))]
       \/ drv' = [drv EXCEPT !.pc = "failed"]
    /\ UNCHANGED <<ctxvars, x, f, g, last, heap>>

\* lbfgsb_get_latest_x(ctx).
LayoutLatestX ==
    /\ drv.pc = "created"
    /\ drv' = [drv EXCEPT !.pc = "viewed",
                          !.j = latest_x_offset(drv.n, drv.m)]
    /\ UNCHANGED <<ctxvars, x, f, g, last, heap>>

LayoutNext ==
    \/ LayoutCreate
    \/ LayoutLatestX

SpecLayout == LayoutInit /\ [][LayoutNext]_vars

\* C40: for every n >= 1 and m >= 1, the n elements of the view given by
\* lbfgsb_get_latest_x, from the index 3n + 2mn + 11m^2 on, are elements of
\* the workspace lbfgsb_create allocated.
C40_LatestXInsideWorkspace ==
    drv.pc = "viewed" => (0 <= drv.j /\ drv.j + drv.n <= drv.wa)

\* With n = 196 and m = 6968 the workspace should have 2^29 + 532
\* elements: the block allocated has 532, and the view starts far beyond.
C40_Witness ==
    /\ drv.pc = "viewed"
    /\ drv.n = 196
    /\ drv.m = 6968
    /\ n_wa(drv.n, drv.m) = ElementsWrap + 532
    /\ drv.wa = 532
    /\ drv.j + drv.n = n_wa(drv.n, drv.m) - (drv.n + 8 * drv.m)
    /\ drv.j > drv.wa

====
